---- MODULE Spec2Model ----
(***************************************************************************)
(* A model of the GitHub Projects MCP server (src/src/index.ts).           *)
(*                                                                         *)
(* The server handles one call-tool request: the dispatcher routes it to   *)
(* a handler, the handler validates its arguments, awaits one or more      *)
(* GraphQL / REST calls and renders one text block.  Every await is a      *)
(* point where the remote decides the outcome, so every await is the       *)
(* boundary between two actions of the model.                              *)
(*                                                                         *)
(* Spec is the server once it runs, one request after the other, against  *)
(* a remote that may answer anything.  SpecRoundTrip puts it against a     *)
(* remote that keeps what the server created, SpecProcess follows the      *)
(* process from its start to its exit, and SpecOverlapping lets a request  *)
(* arrive while a handler awaits.  SpecUpdateItem and SpecCreateIssue are  *)
(* the server under a host that calls only update-project-item, and only   *)
(* create-issue and add-item-to-project, with more values of their         *)
(* arguments than Spec tries.                                              *)
(*                                                                         *)
(* JavaScript values are records [t, k, s, n]: t the type, s the string    *)
(* content, n the number, k the single key of a one-key object.            *)
(* Rendered text is a sequence of tokens: the literal pieces of a template *)
(* and the interpolated values, in order.                                  *)
(***************************************************************************)
EXTENDS Integers, Naturals, Sequences, FiniteSets, TLC

VARIABLES
    pc,        \* where the server is: "idle", an await point, or "done"
    request,   \* the call-tool request being served: [name, arguments]
    net,       \* the network calls issued while serving it, in order
    locals,    \* the handler's local variables that live across an await
    project,   \* the project node the handler last destructured from a response
    result,    \* what the call-tool handler returned or threw
    remote,    \* the projects the remote created for this server, in order
    process,   \* the Node.js process: its environment, startup and shutdown
    suspended  \* the handlers that await a call while another handler runs

\* what a handler does not touch
outside == <<remote, process, suspended>>

\* the state of the handler that runs
handling == <<pc, request, net, locals, project, result>>

vars == <<pc, request, net, locals, project, result, remote, process, suspended>>

----------------------------------------------------------------------------
(* Bounds of the model *)

\* the longest field list the remote returns for a project
MaxFields == 2

\* the number of projects the remote lets this server create
MaxProjects == 2

\* the number of handlers that can await while another one runs
MaxSuspended == 1

----------------------------------------------------------------------------
(* JavaScript values *)

JS(t, k, s, n) == [t |-> t, k |-> k, s |-> s, n |-> n]
JStr(s) == JS("string", "", s, 0)
JNum(n) == JS("number", "", "", n)
JArr == JS("array", "", "", 0)
JUndefined == JS("undefined", "", "", 0)
JObj(k, v) == JS("object", k, IF v.t = "number" /\ v.s = "" THEN "" ELSE v.s, v.n)

Undefined == [undefined |-> TRUE]

\* truthiness of a string: !s
Falsy(v) == v = JUndefined \/ (v.t = "string" /\ v.s = "")

----------------------------------------------------------------------------
(* String contents: the characters of every string whose case matters *)

UpperChars == <<"A","B","C","D","E","F","G","H","I","J","K","L","M",
                "N","O","P","Q","R","S","T","U","V","W","X","Y","Z">>
LowerChars == <<"a","b","c","d","e","f","g","h","i","j","k","l","m",
                "n","o","p","q","r","s","t","u","v","w","x","y","z">>

Chars(s) ==
    CASE s = "" -> <<>>
      [] s = "Title" -> <<"T","i","t","l","e">>
      [] s = "Status" -> <<"S","t","a","t","u","s">>
      [] s = "My State" -> <<"M","y"," ","S","t","a","t","e">>
      [] s = "COLUMNS" -> <<"C","O","L","U","M","N","S">>
      [] s = "Sprint" -> <<"S","p","r","i","n","t">>
      [] s = "Todo" -> <<"T","o","d","o">>
      [] s = "Done" -> <<"D","o","n","e">>
      [] s = "DONE" -> <<"D","O","N","E">>
      [] s = "done" -> <<"d","o","n","e">>
      [] s = "Blocked" -> <<"B","l","o","c","k","e","d">>
      [] s = "status" -> <<"s","t","a","t","u","s">>
      [] s = "state" -> <<"s","t","a","t","e">>
      [] s = "column" -> <<"c","o","l","u","m","n">>
      [] s = "42" -> <<"4","2">>
      [] s = "7days" -> <<"7","d","a","y","s">>

\* String.prototype.toLowerCase, character by character
toLowerCaseChar(c) ==
    IF \E i \in 1..Len(UpperChars) : UpperChars[i] = c
    THEN LowerChars[CHOOSE i \in 1..Len(UpperChars) : UpperChars[i] = c]
    ELSE c

toLowerCase(cs) == [i \in 1..Len(cs) |-> toLowerCaseChar(cs[i])]

\* String.prototype.includes
includes(cs, sub) ==
    \E i \in 0..(Len(cs) - Len(sub)) : SubSeq(cs, i + 1, i + Len(sub)) = sub

\* Array.prototype.join over already rendered tokens: the elements with the
\* separator between them
RECURSIVE join(_, _)
join(tokens, sep) ==
    IF Len(tokens) = 0 THEN <<>>
    ELSE IF Len(tokens) = 1 THEN tokens
    ELSE <<Head(tokens), sep>> \o join(Tail(tokens), sep)

\* the joined string is the empty string (falsy in JavaScript)
IsEmptyText(tokens) == \A i \in 1..Len(tokens) : tokens[i] = ""

\* Array.prototype.find: hits[i] is the predicate's answer on element i; the
\* index of the first element it accepts, 0 if none
FindIndex(hits) ==
    IF \E i \in 1..Len(hits) : hits[i]
    THEN CHOOSE i \in 1..Len(hits) : hits[i] /\ \A j \in 1..(i - 1) : ~hits[j]
    ELSE 0

RECURSIVE Flatten(_)
Flatten(seqs) == IF Len(seqs) = 0 THEN <<>> ELSE Head(seqs) \o Flatten(Tail(seqs))

Range(f) == {f[x] : x \in DOMAIN f}

----------------------------------------------------------------------------
(* Zod schemas (lines 30-89) and z.object(...).parse *)

Field(key, type, optional, hasDefault, def, values) ==
    [key |-> key, type |-> type, optional |-> optional,
     hasDefault |-> hasDefault, def |-> def, values |-> values]
Req(key) == Field(key, "string", FALSE, FALSE, JUndefined, <<>>)
Opt(key) == Field(key, "string", TRUE, FALSE, JUndefined, <<>>)

VisibilityValues == <<"PUBLIC", "PRIVATE">>
FieldTypeValues == <<"TEXT", "NUMBER", "DATE", "SINGLE_SELECT", "ITERATION">>

\* a schema of create-project whose visibility defaults to PUBLIC
CreateProjectSchemaPublic ==
    << Req("title"), Opt("description"), Req("owner"),
       Field("visibility", "enum", FALSE, TRUE, JStr("PUBLIC"), VisibilityValues) >>

CreateProjectSchema ==
    << Req("title"), Opt("description"), Req("owner"),
       Field("visibility", "enum", FALSE, TRUE, JStr("PRIVATE"), VisibilityValues) >>
GetProjectSchema == << Req("projectId") >>

\* a schema of update-project that defaults the visibility as create-project does
UpdateProjectSchemaDefaulting ==
    << Req("projectId"), Opt("title"), Opt("description"),
       Field("visibility", "enum", FALSE, TRUE, JStr("PRIVATE"), VisibilityValues) >>

UpdateProjectSchema ==
    << Req("projectId"), Opt("title"), Opt("description"),
       Field("visibility", "enum", TRUE, FALSE, JUndefined, VisibilityValues) >>
CreateIssueSchema ==
    << Req("owner"), Req("repo"), Req("title"), Opt("body"), Opt("projectId") >>
AddItemToProjectSchema == << Req("projectId"), Req("contentId") >>
UpdateProjectItemSchema ==
    << Req("projectId"), Req("itemId"), Req("fieldId"), Req("value"),
       Field("fieldType", "enum", TRUE, FALSE, JUndefined, FieldTypeValues) >>
CreateProjectFieldSchema ==
    << Req("projectId"), Req("name"),
       Field("dataType", "enum", FALSE, FALSE, JUndefined, FieldTypeValues),
       Field("options", "array", TRUE, FALSE, JUndefined, <<>>) >>
UpdateItemStatusSchema == << Req("projectId"), Req("itemId"), Req("status") >>
GetProjectFieldsSchema == << Req("projectId") >>
GetProjectItemsSchema ==
    << Req("projectId"),
       Field("limit", "number", TRUE, TRUE, JNum(20), <<>>) >>

\* args[key], undefined when the key is absent
Get(args, key) == IF key \in DOMAIN args THEN args[key] ELSE JUndefined

Issue(path, code, message) == [path |-> path, code |-> code, message |-> message]

\* util.joinValues: 'A' | 'B'
Quoted(values) == [i \in 1..Len(values) |-> "'" \o values[i] \o "'"]
joinValues(values) == join(Quoted(values), " | ")

\* the issues one field of the shape raises on value v (none when it is valid)
FieldIssues(f, v) ==
    IF v = JUndefined
    THEN IF f.optional \/ f.hasDefault THEN <<>>
         ELSE << Issue(<<f.key>>, "invalid_type", <<"Required">>) >>
    ELSE IF f.type = "enum"
    THEN IF v.t # "string"
         THEN << Issue(<<f.key>>, "invalid_type",
                       <<"Expected ">> \o joinValues(f.values) \o <<", received ", v.t>>) >>
         ELSE IF \E i \in 1..Len(f.values) : f.values[i] = v.s THEN <<>>
         ELSE << Issue(<<f.key>>, "invalid_enum_value",
                       <<"Invalid enum value. Expected ">> \o joinValues(f.values)
                          \o <<", received '", v.s, "'">>) >>
    ELSE IF v.t = f.type THEN <<>>
    ELSE << Issue(<<f.key>>, "invalid_type",
                  <<"Expected ", f.type, ", received ", v.t>>) >>

\* the parsed value of one field: the declared default replaces undefined
FieldData(f, v) == IF v = JUndefined /\ f.hasDefault THEN f.def ELSE v

\* Schema.parse(args): every key of the shape is visited, in order, so the
\* issues of all violated fields are collected; an args that is no object is
\* one issue at the root.  Keys outside the shape are stripped.
Parse(schema, args) ==
    IF args = Undefined
    THEN [ok |-> FALSE, data |-> Undefined,
          issues |-> << Issue(<<>>, "invalid_type", <<"Required">>) >>]
    ELSE LET issues == Flatten([i \in 1..Len(schema) |->
                                   FieldIssues(schema[i], Get(args, schema[i].key))])
         IN  [ok |-> issues = <<>>,
              data |-> [k \in {schema[i].key : i \in 1..Len(schema)} |->
                           LET f == schema[CHOOSE i \in 1..Len(schema) : schema[i].key = k]
                           IN  FieldData(f, Get(args, k))],
              issues |-> issues]

----------------------------------------------------------------------------
(* Errors and responses *)

Error(type, code, message, issues) ==
    [type |-> type, code |-> code, message |-> message, issues |-> issues]
ZodError(issues) == Error("ZodError", "", <<>>, issues)
McpError(code, message) == Error("McpError", code, message, <<>>)
TypeError(message) == Error("TypeError", "", message, <<>>)

\* { content: [{ type: "text", text }] }
TextResponse(text) ==
    [kind |-> "return", content |-> << [type |-> "text", text |-> text] >>,
     error |-> Undefined]
Thrown(error) == [kind |-> "throw", content |-> <<>>, error |-> error]
NoResult == [kind |-> "none", content |-> <<>>, error |-> Undefined]

\* error.errors.map(e => e.message).join(", ")
ZodMessages(issues) ==
    Flatten([i \in 1..Len(issues) |->
                IF i = 1 THEN issues[i].message ELSE <<", ">> \o issues[i].message])

\* a catch block that turns every error into an invalid-params fault
CaughtAsInvalidParams(error) ==
    McpError("InvalidParams", <<"Invalid arguments: ">> \o error.message)

\* the catch block of the call-tool handler (lines 815-823)
Caught(error) ==
    IF error.type = "ZodError"
    THEN McpError("InvalidParams", <<"Invalid arguments: ">> \o ZodMessages(error.issues))
    ELSE error

----------------------------------------------------------------------------
(* What the remote can answer *)

\* error instanceof Error ? error.message : String(error), for the error a
\* failed GraphQL or REST call throws
UpstreamMessage == <<"Request failed due to following response errors">>

Option(id, name) == [id |-> id, name |-> name]

\* A node of project.fields.nodes as GET_PROJECT_DETAILS returns it (lines
\* 262-278): the query selects id, name and dataType on ProjectV2Field, options
\* as well on ProjectV2SingleSelectField, and nothing on ProjectV2IterationField
\* (a type of the same union, see lines 461-475), whose node is the empty object.
\* hasOptions tells whether the node has an options property at all.
FieldNode(id, name, dataType, hasOptions, options) ==
    [selected |-> TRUE, id |-> id, name |-> name, dataType |-> dataType,
     hasOptions |-> hasOptions, options |-> options]
EmptyNode ==
    [selected |-> FALSE, id |-> "", name |-> "", dataType |-> "",
     hasOptions |-> FALSE, options |-> <<>>]

\* field?.options, for field a node or undefined (index 0)
NoOptions == [defined |-> FALSE, list |-> <<>>]
OptionsOf(fields, i) ==
    IF i = 0 THEN NoOptions
    ELSE [defined |-> fields[i].hasOptions, list |-> fields[i].options]

TitleField == FieldNode("F1", "Title", "TEXT", FALSE, <<>>)
StatusField ==
    FieldNode("F2", "Status", "SINGLE_SELECT", TRUE,
              << Option("O1", "Todo"), Option("O2", "Done"), Option("O3", "DONE") >>)
StateField ==
    FieldNode("F3", "My State", "SINGLE_SELECT", TRUE, << Option("O4", "done") >>)
ColumnsField == FieldNode("F4", "COLUMNS", "TEXT", FALSE, <<>>)

FieldNodes == {TitleField, StatusField, StateField, ColumnsField, EmptyNode}

\* the field lists of a project: up to MaxFields different nodes, in any order
FieldLists ==
    UNION { { fs \in [1..n -> FieldNodes] : \A i, j \in 1..n : i # j => fs[i] # fs[j] }
            : n \in 0..MaxFields }

ProjectNode(title, public, fields) ==
    [id |-> "P1", number |-> "1", title |-> title, shortDescription |-> JUndefined,
     public |-> public, closed |-> FALSE, url |-> "https://github.com/p/1",
     fields |-> fields, items |-> <<>>]

\* createProjectV2 (lines 334-351): the project the remote creates from the
\* input it received, as its n-th project
Created(n, body) ==
    [ProjectNode(body.title.s, body.visibility = JStr("PUBLIC"), <<>>) EXCEPT
        !.id = "P" \o ToString(n), !.number = ToString(n),
        !.shortDescription = Get(body, "description")]

\* the projects GET_PROJECT_DETAILS can return as node
Projects == { ProjectNode("Roadmap", FALSE, fs) : fs \in FieldLists }

\* an outcome of an awaited call: it throws, or it returns data
Threw == [threw |-> TRUE, data |-> Undefined]
Returned(data) == [threw |-> FALSE, data |-> data]

\* GET_PROJECT_DETAILS / GET_PROJECT_FIELDS_DETAILED: no node, or the project
ProjectOutcomes == {Threw, Returned(Undefined)} \cup { Returned(p) : p \in Projects }

\* GET_USER_ID, GET_ORG_ID: the id of the owner, undefined when user / organization is null
OwnerIdOutcomes(id) == {Threw, Returned(JUndefined), Returned(JStr(id))}

\* GET_USER_PROJECTS, GET_ORG_PROJECTS: the owner is null, or has a list of projects
ProjectsOutcomes ==
    {Threw, Returned([owner |-> FALSE, nodes |-> <<>>]),
     Returned([owner |-> TRUE, nodes |-> <<>>]),
     Returned([owner |-> TRUE,
               nodes |-> << ProjectNode("Roadmap", FALSE, <<>>),
                            ProjectNode("Website", TRUE, <<>>) >>])}

\* mutations and the REST call: they throw or return what they were asked to return
MutationOutcomes == {Threw, Returned([id |-> "N1"])}

----------------------------------------------------------------------------
(* The requests the host can send *)

ToolNames ==
    {"list-projects", "get-project", "create-project", "update-project",
     "create-issue", "add-item-to-project", "update-project-item",
     "create-project-field", "update-item-status", "get-project-fields",
     "get-project-items"}

\* the values tried for each argument: well-typed ones and ill-typed ones
Candidates(key) ==
    CASE key = "owner" -> {JStr("acme")}
      [] key = "type" -> {JStr("user"), JStr("organization"), JStr("team")}
      [] key = "projectId" -> {JStr("P1"), JNum(7)}
      [] key = "title" -> {JStr("Sprint Planning")}
      [] key = "description" -> {JStr("Plans")}
      [] key = "visibility" -> {JStr("PUBLIC"), JStr("PRIVATE"), JStr("SECRET")}
      [] key = "repo" -> {JStr("web")}
      [] key = "body" -> {JStr("Text")}
      [] key = "contentId" -> {JStr("I_1")}
      [] key = "itemId" -> {JStr("PVTI_1")}
      [] key = "fieldId" -> {JStr("F2"), JStr("F9")}
      [] key = "value" -> {JStr("done"), JStr("Blocked")}
      [] key = "fieldType" ->
            {JStr("TEXT"), JStr("NUMBER"), JStr("DATE"), JStr("SINGLE_SELECT"),
             JStr("ITERATION"), JStr("CHECKBOX")}
      [] key = "name" -> {JStr("Sprint")}
      [] key = "dataType" -> {JStr("SINGLE_SELECT"), JStr("CHECKBOX")}
      [] key = "options" -> {JArr}
      [] key = "status" -> {JStr("done"), JStr("Blocked")}
      [] key = "limit" -> {JNum(0), JNum(50), JStr("all")}

\* the arguments each tool's input contract declares (lines 527-777)
ToolKeys(name) ==
    CASE name = "list-projects" -> {"owner", "type"}
      [] name = "get-project" -> {"projectId"}
      [] name = "create-project" -> {"title", "description", "owner", "visibility"}
      [] name = "update-project" -> {"projectId", "title", "description", "visibility"}
      [] name = "create-issue" -> {"owner", "repo", "title", "body", "projectId"}
      [] name = "add-item-to-project" -> {"projectId", "contentId"}
      [] name = "update-project-item" ->
            {"projectId", "itemId", "fieldId", "value", "fieldType"}
      [] name = "create-project-field" -> {"projectId", "name", "dataType", "options"}
      [] name = "update-item-status" -> {"projectId", "itemId", "status"}
      [] name = "get-project-fields" -> {"projectId"}
      [] name = "get-project-items" -> {"projectId", "limit"}
      [] OTHER -> {}

\* the required arguments each tool's input contract declares
ToolRequired(name) ==
    CASE name = "list-projects" -> {"owner"}
      [] name = "get-project" -> {"projectId"}
      [] name = "create-project" -> {"title", "owner"}
      [] name = "update-project" -> {"projectId"}
      [] name = "create-issue" -> {"owner", "repo", "title"}
      [] name = "add-item-to-project" -> {"projectId", "contentId"}
      [] name = "update-project-item" -> {"projectId", "itemId", "fieldId", "value"}
      [] name = "create-project-field" -> {"projectId", "name", "dataType"}
      [] name = "update-item-status" -> {"projectId", "itemId", "status"}
      [] name = "get-project-fields" -> {"projectId"}
      [] name = "get-project-items" -> {"projectId"}
      [] OTHER -> {}

\* the argument objects tried for a tool: any subset of its keys, each with one
\* of its candidate values; and no argument object at all
ArgObjects(name) ==
    UNION { { a \in [ks -> UNION {Candidates(k) : k \in ks}] :
                \A k \in ks : a[k] \in Candidates(k) }
            : ks \in SUBSET ToolKeys(name) }

Requests ==
    { [name |-> n, arguments |-> Undefined] : n \in ToolNames \cup {"delete-project"} }
    \cup { [name |-> "delete-project", arguments |-> a] : a \in ArgObjects("get-project") }
    \cup UNION { { [name |-> n, arguments |-> a] : a \in ArgObjects(n) } : n \in ToolNames }

----------------------------------------------------------------------------
(* The process: environment, startup and shutdown
   (lines 9-15, 490-521, 827-836, 1558-1570) *)

\* a file of the working directory: it does not exist, or it exists and
\* defines GITHUB_TOKEN (token) or does not (token undefined)
Missing == [exists |-> FALSE, token |-> JUndefined]
File(token) == [exists |-> TRUE, token |-> token]

\* the files are read at startup only (lines 11-15): once the token is read
\* they play no part and the model forgets them
Forgotten == [local |-> Missing, dotenv |-> Missing]

\* the process as node starts it: env is process.env.GITHUB_TOKEN (given keeps
\* the value node started with), local and dotenv are the files .env.local
\* and .env
Process(env, local, dotenv) ==
    [phase |-> "start", given |-> env, env |-> env,
     files |-> [local |-> local, dotenv |-> dotenv],
     loaded |-> "", token |-> JUndefined, transport |-> "none",
     closing |-> FALSE, interrupted |-> "", code |-> 0]

Processes ==
    { Process(env, local, dotenv) :
        env \in {JUndefined, JStr("ghp_env")},
        local \in {Missing, File(JUndefined), File(JStr("ghp_local"))},
        dotenv \in {Missing, File(JUndefined), File(JStr("ghp_dotenv"))} }

\* a choice of file that prefers the general file
dotenvPathGeneralFirst(files) ==
    IF files.dotenv.exists THEN ".env" ELSE IF files.local.exists THEN ".env.local" ELSE ""

\* lines 11-15: the file handed to dotenv.config, "" when neither exists
dotenvPath(files) ==
    IF files.local.exists THEN ".env.local" ELSE IF files.dotenv.exists THEN ".env" ELSE ""

\* dotenv.config({ path }): a variable of the file is put into process.env
\* unless process.env defines it already
dotenvConfig(env, file) ==
    IF file.token # JUndefined /\ env = JUndefined THEN file.token ELSE env

\* the process of a server that started and serves requests
Serving ==
    [Process(JStr("ghp_env"), Missing, Missing) EXCEPT
        !.phase = "running", !.token = JStr("ghp_env"), !.transport = "connected"]

\* the event loop runs callbacks; the transport hands requests to the server
Alive == process.phase # "exited"
Accepting == process.phase = "running" /\ ~process.closing

\* process.exit(code), or the death of the process by an uncaught exception
exit(p, code) == [p EXCEPT !.phase = "exited", !.code = code, !.files = Forgotten]

\* a constructor that does not check the token
constructedUnchecked(p) ==
    [p EXCEPT !.phase = "connecting", !.token = p.env, !.files = Forgotten]

\* lines 503-507 and 1566-1567: the constructor reads the token and throws
\* when it is missing, which nothing catches: node exits with code 1;
\* otherwise the handlers are registered and run() awaits the connect
constructed(p) ==
    IF Falsy(p.env) THEN exit(p, 1)
    ELSE [p EXCEPT !.phase = "connecting", !.token = p.env, !.files = Forgotten]

----------------------------------------------------------------------------
(* The state after construction, and the steps every handler is made of *)

NoRequest == [name |-> "", arguments |-> Undefined]
NoLocals ==
    [ownerId |-> JUndefined, actualFieldType |-> JUndefined, text |-> <<>>,
     field |-> 0, option |-> 0]

Init ==
    /\ pc = "idle"
    /\ request = NoRequest
    /\ net = <<>>
    /\ locals = NoLocals
    /\ project = Undefined
    /\ result = NoResult
    /\ remote = <<>>
    /\ process = Serving
    /\ suspended = <<>>

\* ${v} in a template literal
Render(v) ==
    CASE v.t = "undefined" -> "undefined"
      [] v.t = "string" -> v.s
      [] v.t = "number" -> IF v.s = "NaN" THEN "NaN" ELSE ToString(v.n)
      [] OTHER -> "[object Object]"

\* the variables as the client puts them on the wire: JSON.stringify leaves out
\* every key whose value is undefined and writes NaN as null
JSONStringify(variables) ==
    [k \in {key \in DOMAIN variables : variables[key] # JUndefined} |->
        IF variables[k].t = "object" /\ variables[k].k = "number" /\ variables[k].s = "NaN"
        THEN JS("object", "number", "null", 0)
        ELSE variables[k]]

\* this.graphqlClient(query, variables) / this.restClient.issues.create(params)
Call(op, variables) ==
    [op |-> op, variables |-> variables, body |-> JSONStringify(variables),
     status |-> "pending"]

\* a call that is left in flight when the handler goes on
SettledLater(r) == net

\* the call awaited last has returned or thrown
Settled(r) == [net EXCEPT ![Len(net)].status = IF r.threw THEN "threw" ELSE "returned"]

\* an exception leaves the handler before its try block: it reaches the catch
\* block of the call-tool handler, which throws it on to the transport
Throw(error) ==
    /\ pc' = "done"
    /\ result' = Thrown(Caught(error))
    /\ UNCHANGED <<net, locals, project>>

\* the handler issues its first call and awaits it
Await(point, call) ==
    /\ pc' = point
    /\ net' = Append(net, call)
    /\ UNCHANGED <<locals, project, result>>

\* the handler returns its one text block after the awaited call settled as r
Return(r, text) ==
    /\ pc' = "done"
    /\ net' = Settled(r)
    /\ result' = TextResponse(text)

\* the awaited call settled as r and the handler issues and awaits the next one
Then(r, point, call) ==
    /\ pc' = point
    /\ net' = Append(Settled(r), call)
    /\ result' = result

\* the arguments as the handler parsed them
Parsed(schema) == Parse(schema, request.arguments).data

----------------------------------------------------------------------------
(* listProjects (lines 838-874) *)

\* const { owner, type = "user" } = args
listProjectsType(args) ==
    IF Get(args, "type") = JUndefined THEN JStr("user") ELSE Get(args, "type")

listProjectsQuery(args) ==
    IF listProjectsType(args) = JStr("organization")
    THEN "GET_ORG_PROJECTS" ELSE "GET_USER_PROJECTS"

listProjects(args) ==
    IF args = Undefined
    THEN Throw(TypeError(<<"Cannot destructure property 'owner' of 'args' as it is undefined.">>))
    ELSE Await("listProjects",
               Call(listProjectsQuery(args), [login |-> Get(args, "owner")]))

Visibility(p) == IF p.public THEN "Public" ELSE "Private"
Description(p) ==
    IF Falsy(p.shortDescription) THEN "No description" ELSE Render(p.shortDescription)
ClosedText(p) == IF p.closed THEN "Closed" ELSE "Open"

ProjectSummaryText(p) ==
    << "* ", p.title, " (#", p.number, ")\n", "  ID: ", p.id, "\n",
       "  Description: ", Description(p), "\n",
       "  Visibility: ", Visibility(p), "\n",
       "  Status: ", ClosedText(p), "\n", "  URL: ", p.url, "\n" >>

listProjectsSettles ==
    /\ pc = "listProjects"
    /\ Alive
    /\ \E r \in ProjectsOutcomes :
         LET projects == IF r.threw \/ ~r.data.owner THEN <<>> ELSE r.data.nodes
         IN  IF r.threw
             THEN Return(r, <<"Error listing projects: ">> \o UpstreamMessage)
             ELSE Return(r, << "Projects for ", Render(Get(request.arguments, "owner")),
                               ":\n\n" >>
                            \o Flatten([i \in 1..Len(projects) |->
                                   IF i = 1 THEN ProjectSummaryText(projects[i])
                                   ELSE <<"\n">> \o ProjectSummaryText(projects[i])]))
    /\ UNCHANGED <<request, locals, project>>
    /\ UNCHANGED outside

----------------------------------------------------------------------------
(* getProject (lines 876-926) *)

getProject(args) ==
    LET parsed == Parse(GetProjectSchema, args)
    IN  IF ~parsed.ok THEN Throw(ZodError(parsed.issues))
        ELSE Await("getProject",
                   Call("GET_PROJECT_DETAILS", [projectId |-> parsed.data.projectId]))

\* a property of a field node in a template: undefined on the empty object
NodeText(f, value) == IF f.selected THEN value ELSE "undefined"

FieldLineText(f) ==
    << "* ", NodeText(f, f.name), " (", NodeText(f, f.dataType), ") - ID: ",
       NodeText(f, f.id), "\n" >>

ProjectDetailsText(p) ==
    << "Project Details:\n\n", "Title: ", p.title, "\n", "ID: ", p.id, "\n",
       "Number: #", p.number, "\n", "Description: ", Description(p), "\n",
       "Visibility: ", Visibility(p), "\n", "Status: ", ClosedText(p), "\n",
       "URL: ", p.url, "\n\n", "Fields (", ToString(Len(p.fields)), "):\n" >>
    \o Flatten([i \in 1..Len(p.fields) |-> FieldLineText(p.fields[i])])
    \o << "\n", "Items (", ToString(Len(p.items)), "):\n" >>

\* lines 886-926: the handler goes on when the fetch settled as r
getProjectAnswered(r) ==
    /\ project' = r.data
    /\ IF r.threw
       THEN Return(r, <<"Error getting project: ">> \o UpstreamMessage)
       ELSE IF r.data = Undefined
       THEN Return(r, <<"Error getting project: ", "Project not found">>)
       ELSE Return(r, ProjectDetailsText(r.data))
    /\ UNCHANGED <<request, locals>>

getProjectSettles ==
    /\ pc = "getProject"
    /\ Alive
    /\ \E r \in ProjectOutcomes : getProjectAnswered(r)
    /\ UNCHANGED outside

\* the node a remote that only this server changes returns for an id
Stored(projectId) ==
    IF \E i \in 1..Len(remote) : JStr(remote[i].project.id) = projectId
    THEN remote[CHOOSE i \in 1..Len(remote) : JStr(remote[i].project.id) = projectId].project
    ELSE Undefined

\* the fetch settles at a remote that nobody else changes: it fails, or it
\* returns the project stored under the id
getProjectFromStore ==
    /\ pc = "getProject"
    /\ Alive
    /\ \E r \in {Threw, Returned(Stored(net[1].variables.projectId))} :
         getProjectAnswered(r)
    /\ UNCHANGED outside

----------------------------------------------------------------------------
(* createProject (lines 928-978) *)

createProject(args) ==
    LET parsed == Parse(CreateProjectSchema, args)
    IN  IF ~parsed.ok THEN Throw(ZodError(parsed.issues))
        ELSE Await("createProject:userId",
                   Call("GET_USER_ID", [login |-> parsed.data.owner]))

\* a handler that sends the mutation with whatever the lookup gave
createProjectWithAnyOwner(r, ownerId) ==
    LET a == Parsed(CreateProjectSchema)
    IN  /\ locals' = [locals EXCEPT !.ownerId = ownerId]
        /\ Then(r, "createProject:create",
                Call("CREATE_PROJECT",
                     [ownerId |-> ownerId, title |-> a.title,
                      description |-> a.description, visibility |-> a.visibility]))

\* lines 942-951: with the owner id resolved, the mutation; without, the error
createProjectWithOwner(r, ownerId) ==
    LET a == Parsed(CreateProjectSchema)
    IN  /\ locals' = [locals EXCEPT !.ownerId = ownerId]
        /\ IF Falsy(ownerId)
           THEN Return(r, << "Error creating project: ", "Owner '", Render(a.owner),
                             "' not found" >>)
           ELSE Then(r, "createProject:create",
                     Call("CREATE_PROJECT",
                          [ownerId |-> ownerId, title |-> a.title,
                           description |-> a.description, visibility |-> a.visibility]))

\* a lookup that falls back whenever it resolved no id
fallsBackWithoutId(r) == r.threw \/ r.data = JUndefined

\* lines 934-940: the organization lookup is the catch block of the user
\* lookup, entered when and only when the user lookup throws
fallsBackToOrganization(r) == r.threw

createProjectUserIdSettles ==
    /\ pc = "createProject:userId"
    /\ Alive
    /\ \E r \in OwnerIdOutcomes("U_1") :
         IF fallsBackToOrganization(r)
         THEN /\ Then(r, "createProject:orgId",
                      Call("GET_ORG_ID", [login |-> Parsed(CreateProjectSchema).owner]))
              /\ UNCHANGED locals
         ELSE createProjectWithOwner(r, r.data)
    /\ UNCHANGED <<request, project>>
    /\ UNCHANGED outside

createProjectOrgIdSettles ==
    /\ pc = "createProject:orgId"
    /\ Alive
    /\ \E r \in OwnerIdOutcomes("O_1") :
         IF r.threw
         THEN /\ Return(r, <<"Error creating project: ">> \o UpstreamMessage)
              /\ UNCHANGED locals
         ELSE createProjectWithOwner(r, r.data)
    /\ UNCHANGED <<request, project>>
    /\ UNCHANGED outside

\* lines 953-978: the handler goes on when the mutation settled as r
createProjectAnswered(r) ==
    /\ IF r.threw
       THEN Return(r, <<"Error creating project: ">> \o UpstreamMessage)
       ELSE Return(r, << "Project created successfully!\n\n",
                         "Title: ", r.data.title, "\n", "ID: ", r.data.id, "\n",
                         "Number: #", r.data.number, "\n",
                         "Description: ", Description(r.data), "\n",
                         "URL: ", r.data.url >>)
    /\ UNCHANGED <<request, locals, project>>

\* the mutation as the client put it on the wire
createProjectBody == net[Len(net)].body

createProjectSettles ==
    /\ pc = "createProject:create"
    /\ Alive
    /\ \E r \in {Threw, Returned(Created(1, createProjectBody))} :
         createProjectAnswered(r)
    /\ UNCHANGED outside

\* the mutation settles at a remote that keeps what this server created: it
\* fails and creates nothing, or it creates the project and returns it
createProjectStores ==
    /\ pc = "createProject:create"
    /\ Alive
    /\ \/ createProjectAnswered(Threw) /\ UNCHANGED remote
       \/ /\ Len(remote) < MaxProjects
          /\ LET created == Created(Len(remote) + 1, createProjectBody)
             IN  /\ createProjectAnswered(Returned(created))
                 /\ remote' = Append(remote, [project |-> created,
                                              arguments |-> request.arguments])
    /\ UNCHANGED <<process, suspended>>

----------------------------------------------------------------------------
(* updateProject (lines 980-1015) *)

updateProject(args) ==
    LET parsed == Parse(UpdateProjectSchema, args)
    IN  IF ~parsed.ok THEN Throw(ZodError(parsed.issues))
        ELSE Await("updateProject",
                   Call("UPDATE_PROJECT",
                        [projectId |-> parsed.data.projectId, title |-> parsed.data.title,
                         description |-> parsed.data.description,
                         visibility |-> parsed.data.visibility]))

updateProjectSettles ==
    /\ pc = "updateProject"
    /\ Alive
    /\ \E r \in MutationOutcomes :
         IF r.threw
         THEN Return(r, <<"Error updating project: ">> \o UpstreamMessage)
         ELSE Return(r, << "Project updated successfully!\n\n", "Title: ", "Roadmap",
                           "\n", "ID: ", "P1", "\n", "Description: ", "No description",
                           "\n", "Visibility: ", "Private" >>)
    /\ UNCHANGED <<request, locals, project>>
    /\ UNCHANGED outside

----------------------------------------------------------------------------
(* createIssue (lines 1017-1066) *)

\* restClient.issues.create: it throws, or returns the issue, whose node id
\* the handler does not take for granted (line 1036)
IssueOutcomes == {Threw, Returned([node_id |-> JStr("I_9")]), Returned([node_id |-> JUndefined])}

createIssue(args) ==
    LET parsed == Parse(CreateIssueSchema, args)
    IN  IF ~parsed.ok THEN Throw(ZodError(parsed.issues))
        ELSE Await("createIssue:create",
                   Call("REST_CREATE_ISSUE",
                        [owner |-> parsed.data.owner, repo |-> parsed.data.repo,
                         title |-> parsed.data.title, body |-> parsed.data.body]))

IssueCreatedText(a, issue) ==
    << "Issue created successfully!\n\n", "Title: ", Render(a.title), "\n",
       "Number: #", "12", "\n", "URL: ", "https://github.com/i/12", "\n",
       "Node ID: ", Render(issue.node_id) >>

\* a handler that attaches whenever a projectId was given
attachesWheneverGiven(projectId, node_id) == projectId # JUndefined

\* if (projectId && issue.data.node_id) (line 1036)
attaches(projectId, node_id) == ~Falsy(projectId) /\ ~Falsy(node_id)

createIssueCreateSettles ==
    /\ pc = "createIssue:create"
    /\ Alive
    /\ \E r \in IssueOutcomes :
         LET a == Parsed(CreateIssueSchema)
         IN  IF r.threw
             THEN /\ Return(r, <<"Error creating issue: ">> \o UpstreamMessage)
                  /\ UNCHANGED locals
             ELSE IF attaches(a.projectId, r.data.node_id)
             THEN /\ Then(r, "createIssue:attach",
                          Call("ADD_ITEM_TO_PROJECT",
                               [projectId |-> a.projectId, contentId |-> r.data.node_id]))
                  /\ locals' = [locals EXCEPT !.text = IssueCreatedText(a, r.data)]
             ELSE /\ Return(r, IssueCreatedText(a, r.data))
                  /\ UNCHANGED locals
    /\ UNCHANGED <<request, project>>
    /\ UNCHANGED outside

\* an attach failure that reaches the outer catch block of the handler
attachFailedAsError(text) == <<"Error creating issue: ">> \o UpstreamMessage

\* the inner catch block (lines 1044-1046): the warning goes after the result
attachFailed(text) ==
    text \o <<"\n\nWarning: Could not add issue to project: ">> \o UpstreamMessage

createIssueAttachSettles ==
    /\ pc = "createIssue:attach"
    /\ Alive
    /\ \E r \in MutationOutcomes :
         IF r.threw
         THEN Return(r, attachFailed(locals.text))
         ELSE Return(r, locals.text \o <<"\n\nIssue added to project successfully!">>)
    /\ UNCHANGED <<request, locals, project>>
    /\ UNCHANGED outside

----------------------------------------------------------------------------
(* addItemToProject (lines 1068-1095) *)

addItemToProject(args) ==
    LET parsed == Parse(AddItemToProjectSchema, args)
    IN  IF ~parsed.ok THEN Throw(ZodError(parsed.issues))
        ELSE Await("addItemToProject",
                   Call("ADD_ITEM_TO_PROJECT",
                        [projectId |-> parsed.data.projectId,
                         contentId |-> parsed.data.contentId]))

addItemToProjectSettles ==
    /\ pc = "addItemToProject"
    /\ Alive
    /\ \E r \in MutationOutcomes :
         IF r.threw
         THEN Return(r, <<"Error adding item to project: ">> \o UpstreamMessage)
         ELSE Return(r, <<"Item added to project successfully!\n\nItem ID: ", r.data.id>>)
    /\ UNCHANGED <<request, locals, project>>
    /\ UNCHANGED outside

----------------------------------------------------------------------------
(* updateProjectItem (lines 1097-1178) *)

\* project?.fields?.nodes?.find((f) => f.id === fieldId): the index, 0 if none
findFieldById(p, fieldId) ==
    IF p = Undefined THEN 0
    ELSE FindIndex([i \in 1..Len(p.fields) |->
                       p.fields[i].selected /\ JStr(p.fields[i].id) = fieldId])

\* a comparison that forgets the case folding
optionMatchesExactly(opt, value) == Chars(opt.name) = Chars(value)

\* opt.name.toLowerCase() === value.toLowerCase()
optionMatches(opt, value) ==
    toLowerCase(Chars(opt.name)) = toLowerCase(Chars(value))

\* a lookup that takes the first option whatever its name
findOptionFirst(options, value) ==
    IF options.defined /\ Len(options.list) > 0 THEN 1 ELSE 0

\* options?.find((opt) => opt.name.toLowerCase() === value.toLowerCase())
findOption(options, value) ==
    IF ~options.defined THEN 0
    ELSE FindIndex([i \in 1..Len(options.list) |->
                       optionMatches(options.list[i], value)])

\* options?.map((opt) => opt.name).join(', ') in a template literal
OptionNamesText(options) ==
    IF ~options.defined THEN <<"undefined">>
    ELSE join([i \in 1..Len(options.list) |-> options.list[i].name], ", ")

Digits == <<"0","1","2","3","4","5","6","7","8","9">>
IsDigit(c) == \E i \in 1..Len(Digits) : Digits[i] = c
DigitValue(c) == (CHOOSE i \in 1..Len(Digits) : Digits[i] = c) - 1

RECURSIVE DecimalValue(_)
DecimalValue(cs) ==
    IF Len(cs) = 0 THEN 0
    ELSE 10 * DecimalValue(SubSeq(cs, 1, Len(cs) - 1)) + DigitValue(cs[Len(cs)])

\* parseFloat on an unsigned decimal string: the number its longest prefix of
\* digits denotes, NaN when it starts with no digit
parseFloat(cs) ==
    LET n == IF \E i \in 1..Len(cs) : ~IsDigit(cs[i])
             THEN (CHOOSE i \in 1..Len(cs) :
                      ~IsDigit(cs[i]) /\ \A j \in 1..(i - 1) : IsDigit(cs[j])) - 1
             ELSE Len(cs)
    IN  IF n = 0 THEN JS("number", "", "NaN", 0) ELSE JNum(DecimalValue(SubSeq(cs, 1, n)))

\* a formatting that sends every value as text
formattedValueAsText(fieldType, value) == JObj("text", value)

\* lines 1116-1148 for the types that need no lookup
formattedValue(fieldType, value) ==
    CASE fieldType = JStr("TEXT") -> JObj("text", value)
      [] fieldType = JStr("NUMBER") -> JObj("number", parseFloat(Chars(value.s)))
      [] fieldType = JStr("DATE") -> JObj("date", value)
      [] fieldType = JStr("ITERATION") -> JObj("iterationId", value)
      [] OTHER -> JObj("text", value)

updateProjectItemMutation(a, value) ==
    Call("UPDATE_PROJECT_ITEM_FIELD",
         [projectId |-> a.projectId, itemId |-> a.itemId, fieldId |-> a.fieldId,
          value |-> value])

\* the re-fetch of the SINGLE_SELECT case (line 1130)
updateProjectItemRefetch(a) ==
    Call("GET_PROJECT_DETAILS", [projectId |-> a.projectId])

updateProjectItem(args) ==
    LET parsed == Parse(UpdateProjectItemSchema, args)
        a == parsed.data
    IN  IF ~parsed.ok THEN Throw(ZodError(parsed.issues))
        ELSE IF Falsy(a.fieldType)
        THEN Await("updateProjectItem:detect",
                   Call("GET_PROJECT_DETAILS", [projectId |-> a.projectId]))
        ELSE /\ pc' = IF a.fieldType = JStr("SINGLE_SELECT")
                      THEN "updateProjectItem:option" ELSE "updateProjectItem:update"
             /\ net' = Append(net,
                              IF a.fieldType = JStr("SINGLE_SELECT")
                              THEN updateProjectItemRefetch(a)
                              ELSE updateProjectItemMutation(
                                       a, formattedValue(a.fieldType, a.value)))
             /\ locals' = [locals EXCEPT !.actualFieldType = a.fieldType]
             /\ UNCHANGED <<project, result>>

\* lines 1105-1112: the detected type; TEXT when the fetch throws
detectedFieldType(r, fieldId) ==
    IF r.threw THEN JStr("TEXT")
    ELSE LET i == findFieldById(r.data, fieldId)
         IN  IF i = 0 THEN JUndefined ELSE JStr(r.data.fields[i].dataType)

updateProjectItemDetectSettles ==
    /\ pc = "updateProjectItem:detect"
    /\ Alive
    /\ \E r \in ProjectOutcomes :
         LET a == Parsed(UpdateProjectItemSchema)
             type == detectedFieldType(r, a.fieldId)
         IN  /\ locals' = [locals EXCEPT !.actualFieldType = type]
             /\ project' = r.data
             /\ IF type = JStr("SINGLE_SELECT")
                THEN Then(r, "updateProjectItem:option", updateProjectItemRefetch(a))
                ELSE Then(r, "updateProjectItem:update",
                          updateProjectItemMutation(a, formattedValue(type, a.value)))
    /\ UNCHANGED request
    /\ UNCHANGED outside

updateProjectItemOptionSettles ==
    /\ pc = "updateProjectItem:option"
    /\ Alive
    /\ \E r \in ProjectOutcomes :
         LET a == Parsed(UpdateProjectItemSchema)
             f == findFieldById(r.data, a.fieldId)
             options == IF f = 0 THEN NoOptions ELSE OptionsOf(r.data.fields, f)
             o == findOption(options, a.value.s)
         IN  /\ project' = r.data
             /\ IF r.threw
                THEN /\ Return(r, << "Error updating project item: ",
                                     "Failed to find single select option: " >>
                                  \o UpstreamMessage)
                     /\ UNCHANGED locals
                ELSE IF o = 0
                THEN /\ Return(r, << "Error updating project item: ",
                                     "Failed to find single select option: ",
                                     "Option '", a.value.s, "' not found for field. ",
                                     "Available options: " >>
                                  \o OptionNamesText(options))
                     /\ locals' = [locals EXCEPT !.field = f, !.option = o]
                ELSE /\ Then(r, "updateProjectItem:update",
                             updateProjectItemMutation(
                                 a, JObj("singleSelectOptionId", JStr(options.list[o].id))))
                     /\ locals' = [locals EXCEPT !.field = f, !.option = o]
    /\ UNCHANGED request
    /\ UNCHANGED outside

updateProjectItemSettles ==
    /\ pc = "updateProjectItem:update"
    /\ Alive
    /\ \E r \in MutationOutcomes :
         IF r.threw
         THEN Return(r, <<"Error updating project item: ">> \o UpstreamMessage)
         ELSE Return(r, << "Project item field updated successfully!\n\n",
                           "Item ID: ", r.data.id, "\n",
                           "Field Type: ", Render(locals.actualFieldType), "\n",
                           "New Value: ", Parsed(UpdateProjectItemSchema).value.s >>)
    /\ UNCHANGED <<request, locals, project>>
    /\ UNCHANGED outside

----------------------------------------------------------------------------
(* createProjectField (lines 1180-1213) *)

\* variables that forward the options of the input
createProjectFieldVariablesWithOptions(data) ==
    [projectId |-> data.projectId, name |-> data.name, dataType |-> data.dataType,
     options |-> data.options]

\* { projectId, name, dataType } (lines 1184-1188)
createProjectFieldVariables(data) ==
    [projectId |-> data.projectId, name |-> data.name, dataType |-> data.dataType]

createProjectField(args) ==
    LET parsed == Parse(CreateProjectFieldSchema, args)
    IN  IF ~parsed.ok THEN Throw(ZodError(parsed.issues))
        ELSE Await("createProjectField",
                   Call("CREATE_PROJECT_FIELD", createProjectFieldVariables(parsed.data)))

createProjectFieldSettles ==
    /\ pc = "createProjectField"
    /\ Alive
    /\ \E r \in MutationOutcomes :
         LET a == Parsed(CreateProjectFieldSchema)
         IN  IF r.threw
             THEN Return(r, <<"Error creating project field: ">> \o UpstreamMessage)
             ELSE Return(r, << "Project field created successfully!\n\n",
                               "Name: ", a.name.s, "\n", "ID: ", r.data.id, "\n",
                               "Type: ", a.dataType.s >>)
    /\ UNCHANGED <<request, locals, project>>
    /\ UNCHANGED outside

----------------------------------------------------------------------------
(* updateItemStatus (lines 1215-1277) *)

\* the predicate of lines 1228-1232 on a field name
isStatusName(name) ==
    LET lower == toLowerCase(Chars(name))
    IN  \/ includes(lower, Chars("status"))
        \/ includes(lower, Chars("state"))
        \/ includes(lower, Chars("column"))

\* project.fields?.nodes?.find(...): find visits the nodes in order and stops
\* at the first one its predicate accepts; on a node without a name the
\* predicate's field.name.toLowerCase() throws a TypeError
findStatusField(fields) ==
    LET stop == FindIndex([i \in 1..Len(fields) |->
                    ~fields[i].selected \/ isStatusName(fields[i].name)])
    IN  IF stop = 0 THEN [threw |-> FALSE, index |-> 0]
        ELSE IF ~fields[stop].selected THEN [threw |-> TRUE, index |-> 0]
        ELSE [threw |-> FALSE, index |-> stop]

\* project.fields?.nodes?.map((f) => f.name).join(', ') || 'none'
FieldNamesText(fields) ==
    LET names == join([i \in 1..Len(fields) |-> NodeText(fields[i], fields[i].name)], ", ")
    IN  IF IsEmptyText(names) THEN <<"none">> ELSE names

updateItemStatus(args) ==
    LET parsed == Parse(UpdateItemStatusSchema, args)
    IN  IF ~parsed.ok THEN Throw(ZodError(parsed.issues))
        ELSE Await("updateItemStatus:fetch",
                   Call("GET_PROJECT_DETAILS", [projectId |-> parsed.data.projectId]))

updateItemStatusFetchSettles ==
    /\ pc = "updateItemStatus:fetch"
    /\ Alive
    /\ \E r \in ProjectOutcomes :
         LET a == Parsed(UpdateItemStatusSchema)
             found == IF r.data = Undefined THEN [threw |-> FALSE, index |-> 0]
                      ELSE findStatusField(r.data.fields)
             statusField == r.data.fields[found.index]
             options == IF r.data = Undefined THEN NoOptions
                        ELSE OptionsOf(r.data.fields, found.index)
             o == findOption(options, a.status.s)
         IN  /\ project' = r.data
             /\ locals' = [locals EXCEPT !.field = found.index, !.option = o]
             /\ IF r.threw
                THEN Return(r, <<"Error updating status: ">> \o UpstreamMessage)
                ELSE IF r.data = Undefined
                THEN Return(r, <<"Error updating status: ", "Project not found">>)
                ELSE IF found.threw
                THEN Return(r, << "Error updating status: ",
                                  "Cannot read properties of undefined (reading 'toLowerCase')" >>)
                ELSE IF found.index = 0
                THEN Return(r, << "Error updating status: ",
                                  "No status field found. Available fields: " >>
                               \o FieldNamesText(r.data.fields))
                ELSE IF o = 0
                THEN Return(r, << "Error updating status: ", "Status '", a.status.s,
                                  "' not found. Available statuses: " >>
                               \o OptionNamesText(options))
                ELSE Then(r, "updateItemStatus:update",
                          Call("UPDATE_PROJECT_ITEM_FIELD",
                               [projectId |-> a.projectId, itemId |-> a.itemId,
                                fieldId |-> JStr(statusField.id),
                                value |-> JObj("singleSelectOptionId",
                                               JStr(options.list[o].id))]))
    /\ UNCHANGED request
    /\ UNCHANGED outside

updateItemStatusSettles ==
    /\ pc = "updateItemStatus:update"
    /\ Alive
    /\ \E r \in MutationOutcomes :
         IF r.threw
         THEN Return(r, <<"Error updating status: ">> \o UpstreamMessage)
         ELSE Return(r, << "Status updated successfully!\n\n", "Item ID: ", r.data.id,
                           "\n", "Field: ", project.fields[locals.field].name, "\n",
                           "New Status: ", Parsed(UpdateItemStatusSchema).status.s >>)
    /\ UNCHANGED <<request, locals, project>>
    /\ UNCHANGED outside

----------------------------------------------------------------------------
(* getProjectFields (lines 1279-1362) *)

\* GET_PROJECT_FIELDS_DETAILED selects every type of the union, so every node
\* has its properties; the digest of a field is abridged to its first lines
DetailedOutcomes ==
    {Threw, Returned(Undefined),
     Returned(ProjectNode("Roadmap", FALSE, <<>>)),
     Returned(ProjectNode("Roadmap", FALSE, <<TitleField, StatusField>>))}

FieldDetailText(f) ==
    << "* **", f.name, "**\n", "  - ID: ", f.id, "\n", "  - Type: ", f.dataType, "\n" >>
    \o (IF f.dataType = "SINGLE_SELECT" /\ f.hasOptions
        THEN << "  - Options (", ToString(Len(f.options)), "):\n" >>
             \o Flatten([i \in 1..Len(f.options) |->
                            << "    ", ToString(i), ". '", f.options[i].name, "' (ID: ",
                               f.options[i].id, ")", "\n" >>])
        ELSE <<>>)

getProjectFields(args) ==
    LET parsed == Parse(GetProjectFieldsSchema, args)
    IN  IF ~parsed.ok THEN Throw(ZodError(parsed.issues))
        ELSE Await("getProjectFields",
                   Call("GET_PROJECT_FIELDS_DETAILED",
                        [projectId |-> parsed.data.projectId]))

getProjectFieldsSettles ==
    /\ pc = "getProjectFields"
    /\ Alive
    /\ \E r \in DetailedOutcomes :
         /\ project' = r.data
         /\ IF r.threw
            THEN Return(r, <<"Error getting project fields: ">> \o UpstreamMessage)
            ELSE IF r.data = Undefined
            THEN Return(r, <<"Error getting project fields: ", "Project not found">>)
            ELSE IF Len(r.data.fields) = 0
            THEN Return(r, <<"No custom fields found in this project.">>)
            ELSE Return(r, << "Project Fields for ", r.data.title, ":\n\n",
                              "Total Fields: ", ToString(Len(r.data.fields)), "\n\n" >>
                           \o Flatten([i \in 1..Len(r.data.fields) |->
                                  IF i = 1 THEN FieldDetailText(r.data.fields[i])
                                  ELSE <<"\n">> \o FieldDetailText(r.data.fields[i])])
                           \o << "\n\n**Usage Examples:**\n" >>)
    /\ UNCHANGED <<request, locals>>
    /\ UNCHANGED outside

----------------------------------------------------------------------------
(* getProjectItems (lines 1364-1556) *)

\* the project with its items: none, or one draft issue
ItemsOutcomes ==
    {Threw, Returned(Undefined),
     Returned(ProjectNode("Roadmap", FALSE, <<>>)),
     Returned([ProjectNode("Roadmap", FALSE, <<>>) EXCEPT
                  !.items = << [id |-> "PVTI_1", title |-> "Write docs"] >>])}

\* variables that replace a falsy limit by the default page size
getProjectItemsVariablesOrDefault(data) ==
    [projectId |-> data.projectId,
     first |-> IF data.limit = JNum(0) THEN JNum(20) ELSE data.limit]

\* { projectId, first: limit } (line 1464)
getProjectItemsVariables(data) ==
    [projectId |-> data.projectId, first |-> data.limit]

getProjectItems(args) ==
    LET parsed == Parse(GetProjectItemsSchema, args)
    IN  IF ~parsed.ok THEN Throw(ZodError(parsed.issues))
        ELSE Await("getProjectItems",
                   Call("GetProjectItems", getProjectItemsVariables(parsed.data)))

getProjectItemsSettles ==
    /\ pc = "getProjectItems"
    /\ Alive
    /\ \E r \in ItemsOutcomes :
         /\ project' = r.data
         /\ IF r.threw
            THEN Return(r, <<"Error getting project items: ">> \o UpstreamMessage)
            ELSE IF r.data = Undefined
            THEN Return(r, <<"Error getting project items: ", "Project not found">>)
            ELSE IF Len(r.data.items) = 0
            THEN Return(r, <<"No items found in project '", r.data.title, "'.">>)
            ELSE Return(r, << "Project Items for '", r.data.title, "':\n\n",
                              "Total Items: ", ToString(Len(r.data.items)), "\n\n" >>
                           \o Flatten([i \in 1..Len(r.data.items) |->
                                  << "**", ToString(i), ". ", r.data.items[i].title,
                                     " (Draft)**\n", "   - Type: Draft Issue\n",
                                     "   - Item ID: ", r.data.items[i].id, "\n" >>])
                           \o << "\n\n**Quick Actions:**\n" >>)
    /\ UNCHANGED <<request, locals>>
    /\ UNCHANGED outside

----------------------------------------------------------------------------
(* The call-tool handler (lines 782-824) and the life of a request *)

\* the switch of lines 786-814
Dispatch(name, args) ==
    CASE name = "list-projects" -> listProjects(args)
      [] name = "get-project" -> getProject(args)
      [] name = "create-project" -> createProject(args)
      [] name = "update-project" -> updateProject(args)
      [] name = "create-issue" -> createIssue(args)
      [] name = "add-item-to-project" -> addItemToProject(args)
      [] name = "update-project-item" -> updateProjectItem(args)
      [] name = "create-project-field" -> createProjectField(args)
      [] name = "update-item-status" -> updateItemStatus(args)
      [] name = "get-project-fields" -> getProjectFields(args)
      [] name = "get-project-items" -> getProjectItems(args)
      [] OTHER -> Throw(McpError("MethodNotFound", <<"Unknown tool: ", name>>))

\* a call-tool request arrives: the handler runs up to its first await
CallTool ==
    /\ pc = "idle"
    /\ Accepting
    /\ \E req \in Requests :
         /\ request' = req
         /\ Dispatch(req.name, req.arguments)
    /\ UNCHANGED outside

\* a host that only creates projects and gets them
RoundTripRequests == { req \in Requests : req.name \in {"create-project", "get-project"} }

CallToolRoundTrip ==
    /\ pc = "idle"
    /\ Accepting
    /\ \E req \in RoundTripRequests :
         /\ request' = req
         /\ Dispatch(req.name, req.arguments)
    /\ UNCHANGED outside

\* a host that only updates fields of project items, with values that are a
\* number, a number followed by text, and no number
UpdateItemValues == {JStr("42"), JStr("7days"), JStr("done")}
UpdateItemStrings ==
    UpdateItemValues \cup {JStr("P1"), JStr("PVTI_1")}
        \cup Candidates("fieldId") \cup Candidates("fieldType")
UpdateItemRequests ==
    { [name |-> "update-project-item", arguments |-> a] :
        a \in { b \in [ToolRequired("update-project-item") -> UpdateItemStrings] :
                   /\ b.projectId = JStr("P1") /\ b.itemId = JStr("PVTI_1")
                   /\ b.fieldId \in Candidates("fieldId")
                   /\ b.value \in UpdateItemValues } }
    \cup
    { [name |-> "update-project-item", arguments |-> a] :
        a \in { b \in [ToolKeys("update-project-item") -> UpdateItemStrings] :
                   /\ b.projectId = JStr("P1") /\ b.itemId = JStr("PVTI_1")
                   /\ b.fieldId \in Candidates("fieldId")
                   /\ b.value \in UpdateItemValues
                   /\ b.fieldType \in Candidates("fieldType") } }

CallToolUpdateItem ==
    /\ pc = "idle"
    /\ Accepting
    /\ \E req \in UpdateItemRequests :
         /\ request' = req
         /\ Dispatch(req.name, req.arguments)
    /\ UNCHANGED outside

\* a host that only creates issues and adds items to projects, with a project
\* id, an empty one, or none
CreateIssueRequests ==
    LET given == { req \in Requests :
                     req.name \in {"create-issue", "add-item-to-project"} }
        emptied == { [req EXCEPT !.arguments.projectId = JStr("")] :
                       req \in { g \in given : /\ g.arguments # Undefined
                                               /\ "projectId" \in DOMAIN g.arguments } }
        retitled == { [req EXCEPT !.arguments.title = JStr("Fix login")] :
                        req \in { g \in given \cup emptied :
                                    /\ g.arguments # Undefined
                                    /\ "title" \in DOMAIN g.arguments } }
    IN  given \cup emptied \cup retitled

CallToolCreateIssue ==
    /\ pc = "idle"
    /\ Accepting
    /\ \E req \in CreateIssueRequests :
         /\ request' = req
         /\ Dispatch(req.name, req.arguments)
    /\ UNCHANGED outside

\* the response (or the fault) goes back to the host; the next request starts afresh
Respond ==
    /\ pc = "done"
    /\ Alive
    /\ pc' = "idle"
    /\ request' = NoRequest
    /\ net' = <<>>
    /\ locals' = NoLocals
    /\ project' = Undefined
    /\ result' = NoResult
    /\ UNCHANGED outside

----------------------------------------------------------------------------
(* Startup and shutdown of the process *)

\* lines 11-15: the .env file is loaded into the environment
LoadEnv ==
    /\ process.phase = "start"
    /\ LET path == dotenvPath(process.files)
           file == IF path = ".env.local" THEN process.files.local
                   ELSE process.files.dotenv
       IN  process' = [process EXCEPT
                          !.phase = "loaded", !.loaded = path,
                          !.env = IF path = "" THEN process.env
                                  ELSE dotenvConfig(process.env, file)]
    /\ UNCHANGED <<handling, remote, suspended>>

\* lines 1566-1567: new GitHubProjectsServer() and server.run() up to its await
Start ==
    /\ process.phase = "loaded"
    /\ process' = constructed(process)
    /\ UNCHANGED <<handling, remote, suspended>>

\* await this.server.connect(transport) settles: the server runs, or the
\* rejection reaches the catch of line 1567 and the process exits with code 1
ConnectSettles ==
    /\ process.phase = "connecting"
    /\ \E failed \in BOOLEAN :
         process' = IF failed THEN exit(process, 1)
                    ELSE [process EXCEPT !.phase = "running", !.transport = "connected"]
    /\ UNCHANGED <<handling, remote, suspended>>

\* a SIGINT handler that does not await the close
interruptedWithoutAwait(p) ==
    exit([p EXCEPT !.closing = TRUE, !.interrupted = p.phase], 0)

\* lines 832-833: the SIGINT handler calls this.server.close() and awaits it
interrupted(p) == [p EXCEPT !.closing = TRUE, !.interrupted = p.phase]

\* SIGINT arrives once the handler is registered
Sigint ==
    /\ process.phase \in {"connecting", "running"}
    /\ ~process.closing
    /\ process' = interrupted(process)
    /\ UNCHANGED <<handling, remote, suspended>>

\* lines 833-834: the close completes and the handler goes on to process.exit(0)
\* (the process is gone, and the handlers it was running with it)
CloseSettles ==
    /\ Alive /\ process.closing
    /\ process' = exit([process EXCEPT !.transport = "closed"], 0)
    /\ pc' = "idle" /\ request' = NoRequest /\ net' = <<>> /\ locals' = NoLocals
    /\ project' = Undefined /\ result' = NoResult /\ suspended' = <<>>
    /\ UNCHANGED remote

----------------------------------------------------------------------------

Next ==
    \/ CallTool
    \/ listProjectsSettles
    \/ getProjectSettles
    \/ createProjectUserIdSettles
    \/ createProjectOrgIdSettles
    \/ createProjectSettles
    \/ updateProjectSettles
    \/ createIssueCreateSettles
    \/ createIssueAttachSettles
    \/ addItemToProjectSettles
    \/ updateProjectItemDetectSettles
    \/ updateProjectItemOptionSettles
    \/ updateProjectItemSettles
    \/ createProjectFieldSettles
    \/ updateItemStatusFetchSettles
    \/ updateItemStatusSettles
    \/ getProjectFieldsSettles
    \/ getProjectItemsSettles
    \/ Respond

Spec == Init /\ [][Next]_vars

----------------------------------------------------------------------------
(* Requests that arrive while a handler awaits (lines 782-783, 1558-1560).
   The call-tool handler is an async callback: while it awaits a call the event
   loop is free, and neither the handler nor run() holds back the next request
   of the transport.  The variables of the handler describe the handler the
   event loop is running or ran last; the others wait in suspended. *)

Context ==
    [pc |-> pc, request |-> request, net |-> net, locals |-> locals,
     project |-> project, result |-> result]

\* the requests tried against a handler that awaits
OverlapRequests ==
    { req \in Requests :
        \/ req.name = "create-issue" /\ Parse(CreateIssueSchema, req.arguments).ok
        \/ req.name = "add-item-to-project"
              /\ Parse(AddItemToProjectSchema, req.arguments).ok }

CallToolOverlapping ==
    /\ pc = "idle"
    /\ Accepting
    /\ \E req \in OverlapRequests :
         /\ request' = req
         /\ Dispatch(req.name, req.arguments)
    /\ UNCHANGED outside

\* the handler awaits and the transport has another request: the handler is
\* set aside and the server is free to take the request
Park ==
    /\ pc \notin {"idle", "done"}
    /\ Accepting
    /\ Len(suspended) < MaxSuspended
    /\ suspended' = Append(suspended, Context)
    /\ pc' = "idle" /\ request' = NoRequest /\ net' = <<>> /\ locals' = NoLocals
    /\ project' = Undefined /\ result' = NoResult
    /\ UNCHANGED <<remote, process>>

\* the event loop turns to a handler that was set aside
Switch ==
    /\ Alive
    /\ \E i \in 1..Len(suspended) :
         /\ pc' = suspended[i].pc /\ request' = suspended[i].request
         /\ net' = suspended[i].net /\ locals' = suspended[i].locals
         /\ project' = suspended[i].project /\ result' = suspended[i].result
         /\ suspended' = IF pc = "idle"
                         THEN SubSeq(suspended, 1, i - 1)
                              \o SubSeq(suspended, i + 1, Len(suspended))
                         ELSE [suspended EXCEPT ![i] = Context]
    /\ UNCHANGED <<remote, process>>

NextOverlapping ==
    \/ CallToolOverlapping
    \/ Park
    \/ Switch
    \/ createIssueCreateSettles
    \/ createIssueAttachSettles
    \/ addItemToProjectSettles
    \/ Respond

SpecOverlapping == Init /\ [][NextOverlapping]_vars

\* the server at a remote that keeps the projects the server creates and that
\* nobody else changes
NextRoundTrip ==
    \/ CallToolRoundTrip
    \/ createProjectUserIdSettles
    \/ createProjectOrgIdSettles
    \/ createProjectStores
    \/ getProjectFromStore
    \/ Respond

SpecRoundTrip == Init /\ [][NextRoundTrip]_vars

\* the server under a host that only updates fields of project items
NextUpdateItem ==
    \/ CallToolUpdateItem
    \/ updateProjectItemDetectSettles
    \/ updateProjectItemOptionSettles
    \/ updateProjectItemSettles
    \/ Respond

SpecUpdateItem == Init /\ [][NextUpdateItem]_vars

\* the server under a host that only creates issues and adds items to projects
NextCreateIssue ==
    \/ CallToolCreateIssue
    \/ createIssueCreateSettles
    \/ createIssueAttachSettles
    \/ addItemToProjectSettles
    \/ Respond

SpecCreateIssue == Init /\ [][NextCreateIssue]_vars

\* the server from the start of its process
InitProcess ==
    /\ pc = "idle" /\ request = NoRequest /\ net = <<>> /\ locals = NoLocals
    /\ project = Undefined /\ result = NoResult
    /\ remote = <<>> /\ suspended = <<>>
    /\ process \in Processes

NextProcess ==
    \/ LoadEnv
    \/ Start
    \/ ConnectSettles
    \/ Sigint
    \/ CloseSettles
    \/ Next

\* the close of the transport, once awaited, completes
SpecProcess ==
    InitProcess /\ [][NextProcess]_vars /\ WF_vars(CloseSettles)

----------------------------------------------------------------------------
(* Vocabulary of the claims *)

Registered == request.name \in ToolNames
Answered == pc = "done"

IsInvalidParams(res) ==
    res.kind = "throw" /\ res.error.type = "McpError" /\ res.error.code = "InvalidParams"
IsMethodNotFound(res) ==
    res.kind = "throw" /\ res.error.type = "McpError" /\ res.error.code = "MethodNotFound"
IsOneTextBlock(res) ==
    res.kind = "return" /\ Len(res.content) = 1 /\ res.content[1].type = "text"

ResultText == result.content[1].text
Mentions(text, token) == \E i \in 1..Len(text) : text[i] = token
IsErrorText(prefix) == IsOneTextBlock(result) /\ ResultText[1] = prefix

Issued(op) == \E i \in 1..Len(net) : net[i].op = op

\* the argument object lacks one of the arguments the tool's contract requires
LacksRequired ==
    /\ Registered
    /\ request.arguments # Undefined
    /\ \E k \in ToolRequired(request.name) : k \notin DOMAIN request.arguments

\* the enums the tools' input contracts declare
DeclaredEnum(name, key) ==
    CASE name = "list-projects" /\ key = "type" -> {"user", "organization"}
      [] name \in {"create-project", "update-project"} /\ key = "visibility" ->
            {"PUBLIC", "PRIVATE"}
      [] name = "update-project-item" /\ key = "fieldType" ->
            {"TEXT", "NUMBER", "DATE", "SINGLE_SELECT", "ITERATION"}
      [] name = "create-project-field" /\ key = "dataType" ->
            {"TEXT", "NUMBER", "DATE", "SINGLE_SELECT", "ITERATION"}
      [] OTHER -> {}

\* the argument object gives an enum argument a string outside its enum
OutsideEnum ==
    /\ Registered
    /\ request.arguments # Undefined
    /\ \E k \in DOMAIN request.arguments :
         /\ DeclaredEnum(request.name, k) # {}
         /\ request.arguments[k].t = "string"
         /\ request.arguments[k].s \notin DeclaredEnum(request.name, k)

\* the schema the handler of a tool parses with (list-projects parses with none:
\* its contract is the input schema of lines 527-545)
ListProjectsContract ==
    << Req("owner"),
       Field("type", "enum", FALSE, TRUE, JStr("user"), <<"user", "organization">>) >>
SchemaOf(name) ==
    CASE name = "list-projects" -> ListProjectsContract
      [] name = "get-project" -> GetProjectSchema
      [] name = "create-project" -> CreateProjectSchema
      [] name = "update-project" -> UpdateProjectSchema
      [] name = "create-issue" -> CreateIssueSchema
      [] name = "add-item-to-project" -> AddItemToProjectSchema
      [] name = "update-project-item" -> UpdateProjectItemSchema
      [] name = "create-project-field" -> CreateProjectFieldSchema
      [] name = "update-item-status" -> UpdateItemStatusSchema
      [] name = "get-project-fields" -> GetProjectFieldsSchema
      [] name = "get-project-items" -> GetProjectItemsSchema

\* the fields of the tool's schema the request violates
ViolatedFields ==
    LET schema == SchemaOf(request.name)
    IN  IF request.arguments = Undefined
        THEN { schema[i].key : i \in { j \in 1..Len(schema) :
                                         ~schema[j].optional /\ ~schema[j].hasDefault } }
        ELSE { schema[i].key : i \in { j \in 1..Len(schema) :
                   FieldIssues(schema[j], Get(request.arguments, schema[j].key)) # <<>> } }

\* two strings are equal but for the case of their letters
SameLetter(c, d) ==
    c = d \/ \E i \in 1..Len(UpperChars) : {c, d} = {UpperChars[i], LowerChars[i]}
EqualIgnoringCase(s, t) ==
    /\ Len(Chars(s)) = Len(Chars(t))
    /\ \A i \in 1..Len(Chars(s)) : SameLetter(Chars(s)[i], Chars(t)[i])

\* the name contains the word, whatever the case of its letters
ContainsIgnoringCase(name, word) ==
    \E i \in 0..(Len(Chars(name)) - Len(Chars(word))) :
        \A j \in 1..Len(Chars(word)) : SameLetter(Chars(name)[i + j], Chars(word)[j])
StatusLike(name) ==
    \E word \in {"status", "state", "column"} : ContainsIgnoringCase(name, word)

----------------------------------------------------------------------------
(* C1 *)

\* C1: for every registered tool and every argument object lacking one of the
\* tool's required arguments, the call ends in an invalid-parameters fault and
\* no GraphQL or REST call is issued.
C1_MissingRequiredRejected ==
    LacksRequired => /\ net = <<>>
                     /\ Answered => IsInvalidParams(result)

----------------------------------------------------------------------------
(* C2 *)

\* C2: when argument validation fails, the text of the invalid-parameters
\* fault names every violated field.
C2_FaultNamesEveryField ==
    (Registered /\ Answered /\ IsInvalidParams(result))
        => \A f \in ViolatedFields : Mentions(result.error.message, f)

----------------------------------------------------------------------------
(* C3 *)

\* C3: a call giving an enum argument a value outside its enum is rejected
\* with an invalid-arguments error before any network call is made.
C3_OutsideEnumRejected ==
    OutsideEnum => /\ net = <<>>
                   /\ Answered => IsInvalidParams(result)

----------------------------------------------------------------------------
(* C4 *)

UnknownTool == request # NoRequest /\ ~Registered

\* C4: a request for a tool name that is not registered fails with a
\* method-not-found fault; no handler runs (no await point is entered, no local
\* is set), no network call is issued, and the fault is neither a text response
\* nor an invalid-params fault.
C4_UnknownToolMethodNotFound ==
    UnknownTool => /\ Answered
                   /\ IsMethodNotFound(result)
                   /\ ~IsOneTextBlock(result) /\ ~IsInvalidParams(result)
                   /\ net = <<>> /\ locals = NoLocals /\ project = Undefined

C4_Witness ==
    /\ UnknownTool /\ Answered /\ IsMethodNotFound(result)
    /\ request.arguments # Undefined

----------------------------------------------------------------------------
(* C5 *)

\* C5: for every registered tool, every argument value (an absent argument
\* object included) and every outcome of the remote calls, the call-tool
\* handler returns exactly one text block or raises an invalid-params fault.
C5_TextBlockOrInvalidParams ==
    (Registered /\ Answered) => (IsOneTextBlock(result) \/ IsInvalidParams(result))

----------------------------------------------------------------------------
(* C6 *)

CreatingProject == request.name = "create-project"

\* C6: in every create-project call the user-id lookup is issued before any
\* organization-id lookup, and the organization-id lookup is issued if and only
\* if the user-id lookup threw: a user lookup that returned, with or without an
\* id, is followed by no organization lookup.
C6_UserLookupFirst ==
    CreatingProject =>
        /\ Len(net) >= 1 => net[1].op = "GET_USER_ID"
        /\ \A i \in 1..Len(net) :
             net[i].op = "GET_ORG_ID" => i = 2 /\ net[1].status = "threw"
        /\ (Len(net) >= 1 /\ net[1].status = "threw")
               => (Len(net) >= 2 /\ net[2].op = "GET_ORG_ID")
        /\ (Len(net) >= 1 /\ net[1].status = "returned") => ~Issued("GET_ORG_ID")

\* the user lookup returned without an id and the call is over
C6_Witness ==
    /\ CreatingProject /\ Answered
    /\ Len(net) = 1 /\ net[1].op = "GET_USER_ID" /\ net[1].status = "returned"
    /\ locals.ownerId = JUndefined

----------------------------------------------------------------------------
(* C7 *)

\* both lookups were made and neither resolved an id: each threw or returned none
BothLookupsFailed ==
    /\ CreatingProject /\ Answered
    /\ Len(net) >= 2 /\ net[2].op = "GET_ORG_ID"
    /\ net[1].status = "threw"
    /\ net[2].status = "threw" \/ (net[2].status = "returned" /\ Falsy(locals.ownerId))

OwnerNotFoundText ==
    << "Error creating project: ", "Owner '",
       Render(Parsed(CreateProjectSchema).owner), "' not found" >>

\* C7: in create-project, if the user lookup and the organization lookup both
\* fail (each throws or yields no id), the call fails with the owner-not-found
\* message naming the owner, and the create-project mutation is not issued.
C7_BothFailOwnerNotFound ==
    BothLookupsFailed => /\ IsOneTextBlock(result) /\ ResultText = OwnerNotFoundText
                         /\ ~Issued("CREATE_PROJECT")

----------------------------------------------------------------------------
(* C8 *)

UpdatingItem == request.name = "update-project-item"
EffectivelySingleSelect == UpdatingItem /\ locals.actualFieldType = JStr("SINGLE_SELECT")

\* the nodes of the re-fetched project that are the field with the given id
FieldsWithGivenId ==
    IF project = Undefined THEN {}
    ELSE { f \in Range(project.fields) :
             f.selected /\ JStr(f.id) = Parsed(UpdateProjectItemSchema).fieldId }

\* the options of a field node named as the value asks, ignoring case
OptionsNamed(f, value) ==
    IF ~f.hasOptions THEN {}
    ELSE { o \in Range(f.options) : EqualIgnoringCase(o.name, value) }

\* the re-fetch of the SINGLE_SELECT case has returned
Refetched ==
    /\ pc \in {"updateProjectItem:update", "done"}
    /\ \E i \in 1..Len(net) :
         /\ net[i].op = "GET_PROJECT_DETAILS" /\ net[i].status = "returned"
         /\ \A j \in (i + 1)..Len(net) : net[j].op # "GET_PROJECT_DETAILS"

\* C8: for every update-project-item call whose effective field type is
\* SINGLE_SELECT, the singleSelectOptionId sent in the mutation is the id of an
\* option of the field with the given fieldId whose name equals the requested
\* value ignoring case (and it is sent whenever the re-fetched field has such an
\* option); if the field has no such option, the call fails, sends no mutation,
\* and the error text lists every option name of that field.
C8_SingleSelectOption ==
    EffectivelySingleSelect =>
        LET value == Parsed(UpdateProjectItemSchema).value.s
        IN  /\ \A i \in 1..Len(net) :
                 net[i].op = "UPDATE_PROJECT_ITEM_FIELD" =>
                     /\ net[i].variables.value.k = "singleSelectOptionId"
                     /\ \E f \in FieldsWithGivenId : \E o \in OptionsNamed(f, value) :
                            net[i].variables.value.s = o.id
            /\ (Refetched /\ \E f \in FieldsWithGivenId : OptionsNamed(f, value) # {})
                   => Issued("UPDATE_PROJECT_ITEM_FIELD")
            /\ (Refetched /\ \A f \in FieldsWithGivenId : OptionsNamed(f, value) = {})
                   => /\ Answered /\ IsErrorText("Error updating project item: ")
                      /\ ~Issued("UPDATE_PROJECT_ITEM_FIELD")
                      /\ \A f \in FieldsWithGivenId :
                             f.hasOptions =>
                                 \A o \in Range(f.options) : Mentions(ResultText, o.name)

\* the mutation carries the id of option Done for the requested value done
C8_Witness ==
    /\ EffectivelySingleSelect
    /\ Parsed(UpdateProjectItemSchema).value = JStr("done")
    /\ Len(net) >= 2 /\ net[Len(net)].op = "UPDATE_PROJECT_ITEM_FIELD"
    /\ net[Len(net)].variables.value = JObj("singleSelectOptionId", JStr("O2"))

----------------------------------------------------------------------------
(* C9 *)

UpdatingStatus == request.name = "update-item-status"

\* the project exists: the fetch of update-item-status returned its node
ProjectFetched ==
    /\ UpdatingStatus /\ Len(net) >= 1 /\ net[1].status = "returned"
    /\ project # Undefined

\* the positions of the project's fields with a status-like name
StatusLikePositions ==
    { i \in 1..Len(project.fields) :
        project.fields[i].selected /\ StatusLike(project.fields[i].name) }

FirstStatusLike ==
    CHOOSE i \in StatusLikePositions : \A j \in StatusLikePositions : i <= j

\* C9: for every update-item-status call on an existing project, the field
\* chosen as the status field is the first field, in the project's field order,
\* whose name contains status, state or column ignoring case; if no field
\* matches, the call fails and the error text lists the names of all of the
\* project's fields.
C9_FirstStatusLikeField ==
    ProjectFetched =>
        /\ locals.field # 0 => locals.field = FirstStatusLike
        /\ \A i \in 1..Len(net) :
             net[i].op = "UPDATE_PROJECT_ITEM_FIELD" =>
                 /\ StatusLikePositions # {}
                 /\ net[i].variables.fieldId = JStr(project.fields[FirstStatusLike].id)
        /\ StatusLikePositions = {} =>
             /\ Answered /\ IsErrorText("Error updating status: ")
             /\ \A i \in 1..Len(project.fields) :
                  project.fields[i].selected => Mentions(ResultText, project.fields[i].name)

----------------------------------------------------------------------------
(* C10 *)

\* the fetch returned the project and a status field was discovered in it
StatusFieldDiscovered == ProjectFetched /\ locals.field # 0

DiscoveredField == project.fields[locals.field]

\* C10: in update-item-status, once a status field is discovered, the option
\* used is one of that field's options whose name equals the requested status
\* ignoring case (and one is used whenever the field has such an option); if
\* none matches, a field without options included, the call fails, sends no
\* mutation, and the message lists the option names of that field.
C10_StatusOption ==
    StatusFieldDiscovered =>
        LET status == Parsed(UpdateItemStatusSchema).status.s
            named == OptionsNamed(DiscoveredField, status)
        IN  /\ \A i \in 1..Len(net) :
                 net[i].op = "UPDATE_PROJECT_ITEM_FIELD" =>
                     /\ net[i].variables.value.k = "singleSelectOptionId"
                     /\ \E o \in named : net[i].variables.value.s = o.id
            /\ named # {} => Issued("UPDATE_PROJECT_ITEM_FIELD")
            /\ named = {} =>
                 /\ Answered /\ IsErrorText("Error updating status: ")
                 /\ Mentions(ResultText, "' not found. Available statuses: ")
                 /\ ~Issued("UPDATE_PROJECT_ITEM_FIELD")
                 /\ DiscoveredField.hasOptions =>
                        \A o \in Range(DiscoveredField.options) :
                            Mentions(ResultText, o.name)

\* the status field has no option named as asked and the call has failed
C10_Witness ==
    /\ StatusFieldDiscovered /\ Answered
    /\ DiscoveredField = StatusField
    /\ Parsed(UpdateItemStatusSchema).status = JStr("Blocked")
    /\ IsErrorText("Error updating status: ")

----------------------------------------------------------------------------
(* C11 *)

CreatingIssue == request.name = "create-issue"

\* the issue was created and the attach mutation that followed it threw
AttachFailed ==
    /\ CreatingIssue /\ Answered
    /\ Len(net) = 2
    /\ net[1].op = "REST_CREATE_ISSUE" /\ net[1].status = "returned"
    /\ net[2].op = "ADD_ITEM_TO_PROJECT" /\ net[2].status = "threw"

\* text begins with the tokens of prefix
StartsWith(text, prefix) ==
    Len(text) >= Len(prefix) /\ SubSeq(text, 1, Len(prefix)) = prefix

\* the success message of create-issue: title, number, URL and node id
IssueSuccessText ==
    << "Issue created successfully!\n\n",
       "Title: ", Render(Parsed(CreateIssueSchema).title), "\n",
       "Number: #", "12", "\n", "URL: ", "https://github.com/i/12", "\n",
       "Node ID: ", Render(net[2].variables.contentId) >>

\* C11: in create-issue with a projectId, when the issue is created and the
\* add-item-to-project mutation then fails, the response is the overall
\* success message (title, number, URL, node id) followed by a warning that
\* describes the attach failure; it is never the overall error response.
C11_AttachFailureIsWarning ==
    AttachFailed =>
        /\ IsOneTextBlock(result)
        /\ StartsWith(ResultText, IssueSuccessText)
        /\ Mentions(ResultText, "\n\nWarning: Could not add issue to project: ")
        /\ StartsWith(SubSeq(ResultText, Len(IssueSuccessText) + 2, Len(ResultText)),
                      UpstreamMessage)
        /\ ~IsErrorText("Error creating issue: ")

C11_Witness ==
    /\ AttachFailed
    /\ ~Falsy(Parsed(CreateIssueSchema).projectId)
    /\ Mentions(ResultText, "\n\nWarning: Could not add issue to project: ")

----------------------------------------------------------------------------
(* C12 *)

\* a get-project-items call that gives a number as its limit
GettingItemsWithLimit ==
    /\ request.name = "get-project-items"
    /\ request.arguments # Undefined
    /\ Get(request.arguments, "projectId").t = "string"
    /\ Get(request.arguments, "limit").t = "number"

ZeroItemsText == << "No items found in project '", project.title, "'." >>

----------------------------------------------------------------------------
(* C14 *)

\* an update-project call whose arguments passed validation
UpdatingProject ==
    /\ request.name = "update-project"
    /\ Parse(UpdateProjectSchema, request.arguments).ok

\* the optional fields of update-project the caller supplied
SuppliedUpdates == DOMAIN request.arguments \cap {"title", "description", "visibility"}

\* C14: update-project is a partial update: the mutation variables carry a
\* value for projectId and for exactly the fields the caller supplied, each
\* with the caller's value; a field not supplied is omitted from the request.
C14_PartialUpdate ==
    UpdatingProject =>
        /\ Len(net) = 1 /\ net[1].op = "UPDATE_PROJECT"
        /\ DOMAIN net[1].body = {"projectId"} \cup SuppliedUpdates
        /\ \A k \in DOMAIN net[1].body :
             /\ net[1].body[k] = request.arguments[k]
             /\ net[1].body[k].t = "string"

\* a title alone is supplied and the mutation carries projectId and title only
C14_Witness ==
    /\ UpdatingProject /\ Answered
    /\ SuppliedUpdates = {"title"}
    /\ DOMAIN net[1].body = {"projectId", "title"}

----------------------------------------------------------------------------
(* C15 *)

\* an update-project-item call without fieldType, whose detection fetch has
\* settled and found no type: it threw, returned no project, or the project
\* has no field with the given id
DetectionFailed ==
    /\ UpdatingItem
    /\ Parse(UpdateProjectItemSchema, request.arguments).ok
    /\ "fieldType" \notin DOMAIN request.arguments
    /\ Len(net) >= 1 /\ net[1].status # "pending"
    /\ \/ net[1].status = "threw"
       \/ project = Undefined
       \/ FieldsWithGivenId = {}

\* the token after the first occurrence of label in text
TokenAfter(text, label) ==
    text[(CHOOSE i \in 1..Len(text) : text[i] = label) + 1]

\* C15: in update-project-item without a fieldType, if the lookup of the field
\* type fails for any reason (the fetch throws, the project does not exist, no
\* field has that id), the effective field type is TEXT: the value is sent as a
\* text payload and the success response reports the field type as TEXT.
C15_DetectionDefaultsToText ==
    DetectionFailed =>
        /\ locals.actualFieldType = JStr("TEXT")
        /\ Len(net) = 2 /\ net[2].op = "UPDATE_PROJECT_ITEM_FIELD"
        /\ net[2].variables.value = JObj("text", Parsed(UpdateProjectItemSchema).value)
        /\ (Answered /\ net[2].status = "returned") =>
               /\ IsOneTextBlock(result)
               /\ Mentions(ResultText, "Field Type: ")
               /\ TokenAfter(ResultText, "Field Type: ") = "TEXT"

----------------------------------------------------------------------------
(* C20 *)

\* a create-project-field call whose arguments passed validation
CreatingField ==
    /\ request.name = "create-project-field"
    /\ Parse(CreateProjectFieldSchema, request.arguments).ok

\* the arguments of the request but for its options
WithoutOptions ==
    [k \in DOMAIN request.arguments \ {"options"} |-> request.arguments[k]]

\* C20: create-project-field never forwards the options of its input: with or
\* without options the mutation variables are exactly projectId, name and
\* dataType, and the request is the one made for the same call without options.
C20_OptionsNotForwarded ==
    CreatingField =>
        /\ Len(net) = 1 /\ net[1].op = "CREATE_PROJECT_FIELD"
        /\ DOMAIN net[1].variables = {"projectId", "name", "dataType"}
        /\ DOMAIN net[1].body = {"projectId", "name", "dataType"}
        /\ \A k \in DOMAIN net[1].body : net[1].body[k] = request.arguments[k]
        /\ net[1].variables =
               createProjectFieldVariables(
                   Parse(CreateProjectFieldSchema, WithoutOptions).data)

\* options were supplied for a SINGLE_SELECT field and were not sent
C20_Witness ==
    /\ CreatingField /\ Answered
    /\ "options" \in DOMAIN request.arguments
    /\ request.arguments.dataType = JStr("SINGLE_SELECT")
    /\ "options" \notin DOMAIN net[1].body

----------------------------------------------------------------------------
(* C16 *)

\* the startup has gone past the constructor and the environment had no token
TokenAbsentAtStartup ==
    process.phase \notin {"start", "loaded"} /\ Falsy(process.env)

\* C16: if the GitHub token is absent from the environment at startup, the
\* startup fails fatally: the transport is never connected, no request is
\* ever served, and the process exits with code 1.
C16_AbsentTokenIsFatal ==
    TokenAbsentAtStartup =>
        /\ process.phase = "exited" /\ process.code = 1
        /\ process.transport = "none"
        /\ process.token = JUndefined
        /\ pc = "idle" /\ request = NoRequest /\ net = <<>> /\ result = NoResult

\* .env.local exists but defines no token, and the process has exited with 1
C16_Witness ==
    /\ TokenAbsentAtStartup
    /\ process.loaded = ".env.local"
    /\ process.phase = "exited" /\ process.code = 1

----------------------------------------------------------------------------
(* C17 *)

EnvLoaded == process.phase = "loaded"
BothFilesDefineToken ==
    /\ process.files.local.exists /\ process.files.local.token # JUndefined
    /\ process.files.dotenv.exists /\ process.files.dotenv.token # JUndefined

\* .env.local is the file loaded whenever it exists, and then nothing of .env
\* reaches the environment; .env is loaded only when .env.local does not exist
LocalFileFirst ==
    /\ process.files.local.exists =>
           /\ process.loaded = ".env.local"
           /\ process.env \in {process.given, process.files.local.token}
    /\ process.loaded = ".env" =>
           ~process.files.local.exists /\ process.files.dotenv.exists

\* the token the server uses is the one the environment holds after the load
UsesEnvironment ==
    process.phase \in {"connecting", "running"} => process.token = process.env

\* C17 as claimed: .env.local is loaded in preference to .env before the token
\* is read, so when both files define the token, the value of .env.local is
\* the one the server uses.
C17_LocalFileWins ==
    /\ EnvLoaded =>
           /\ LocalFileFirst
           /\ BothFilesDefineToken => process.env = process.files.local.token
    /\ UsesEnvironment

\* C17, amended: .env.local is loaded in preference to .env before the token
\* is read; a token the process environment already defines is kept, and
\* when it defines none and both files define the token, the value of
\* .env.local is the one the server uses.
C17_LocalFileWinsOverGeneral ==
    /\ EnvLoaded =>
           /\ LocalFileFirst
           /\ process.given # JUndefined => process.env = process.given
           /\ (BothFilesDefineToken /\ process.given = JUndefined)
                  => process.env = process.files.local.token
    /\ UsesEnvironment

\* both files define the token, the environment did not, .env.local's is used
C17_Witness ==
    /\ process.phase = "running"
    /\ process.given = JUndefined
    /\ process.loaded = ".env.local"
    /\ process.token = JStr("ghp_local")

----------------------------------------------------------------------------
(* C18 *)

\* SIGINT arrived while the server was running
InterruptedAfterStartup == process.interrupted = "running"

ExitedCleanly ==
    process.phase = "exited" /\ process.code = 0 /\ process.transport = "closed"

\* C18: on a SIGINT received after startup the server closes the transport
\* and then the process exits with code 0; the exit never happens before the
\* close has completed.
C18_InterruptClosesThenExits ==
    /\ [](InterruptedAfterStartup /\ process.phase = "exited" => ExitedCleanly)
    /\ [](InterruptedAfterStartup => <>ExitedCleanly)

\* the signal arrived while a handler awaited a call, and the process exited
C18_Witness == InterruptedAfterStartup /\ ExitedCleanly

----------------------------------------------------------------------------
(* C13 *)

\* a create-project call that gives no visibility
CreatingWithDefaultVisibility ==
    /\ CreatingProject
    /\ request.arguments # Undefined
    /\ "visibility" \notin DOMAIN request.arguments

\* the projects the remote holds under the id asked for, which a
\* create-project call without visibility created
FetchedAfterCreation ==
    IF ~(request.name = "get-project" /\ Answered /\ Len(net) = 1
            /\ net[1].status = "returned")
    THEN {}
    ELSE { remote[i] : i \in { j \in 1..Len(remote) :
               /\ JStr(remote[j].project.id) = net[1].variables.projectId
               /\ "visibility" \notin DOMAIN remote[j].arguments } }

\* C13: round trip: after a create-project call with a title, an owner and no
\* visibility succeeds and returns project id P, a get-project call for P with
\* no change in between renders the same title and the visibility Private;
\* the omitted visibility was sent to the remote as PRIVATE.
C13_RoundTrip ==
    /\ CreatingWithDefaultVisibility =>
           \A i \in 1..Len(net) :
               net[i].op = "CREATE_PROJECT" =>
                   /\ "visibility" \in DOMAIN net[i].body
                   /\ net[i].body.visibility = JStr("PRIVATE")
    /\ \A e \in FetchedAfterCreation :
           /\ IsOneTextBlock(result)
           /\ TokenAfter(ResultText, "Title: ") = e.arguments.title.s
           /\ TokenAfter(ResultText, "Visibility: ") = "Private"

\* the project created without visibility was fetched and rendered
C13_Witness ==
    /\ FetchedAfterCreation # {}
    /\ TokenAfter(ResultText, "Title: ") = "Sprint Planning"
    /\ TokenAfter(ResultText, "Visibility: ") = "Private"

----------------------------------------------------------------------------
(* C19 *)

\* a handler that has started and has not returned its response
InFlight(context) == context.pc \notin {"idle", "done"}

\* C19: no tool call overlaps with another: while the handler of a request has
\* not returned its response, the handler of another request does not start
\* and issues no network call.
C19_NoOverlap ==
    \A i \in 1..Len(suspended) :
        InFlight(suspended[i]) => pc = "idle" /\ net = <<>>

----------------------------------------------------------------------------
(* C21 *)

\* the bounds the input contract of get-project-items declares for limit
\* (minimum: 1, maximum: 100, lines 772-773)
LimitMinimum == 1
LimitMaximum == 100

\* a get-project-items call that passed the parse
GettingItems ==
    /\ request.name = "get-project-items"
    /\ Issued("GetProjectItems")

\* C21: in every get-project-items call that reaches the network the page
\* size sent to the remote is a number between 1 and 100 inclusive, and it is
\* 20 when the caller omits limit.
C21_PageSizeWithinContract ==
    GettingItems =>
        \A i \in 1..Len(net) :
            net[i].op = "GetProjectItems" =>
                /\ net[i].variables.first.t = "number"
                /\ net[i].variables.first.n >= LimitMinimum
                /\ net[i].variables.first.n <= LimitMaximum
                /\ Get(request.arguments, "limit") = JUndefined
                      => net[i].variables.first = JNum(20)

----------------------------------------------------------------------------
(* C22 *)

\* an update-project-item call that passed the parse and names one of the
\* four field types that need no lookup
UpdatingItemExplicitly ==
    /\ UpdatingItem
    /\ Parse(UpdateProjectItemSchema, request.arguments).ok
    /\ Get(request.arguments, "fieldType")
          \in {JStr("TEXT"), JStr("NUMBER"), JStr("DATE"), JStr("ITERATION")}

\* the key of the value payload each of the four types asks for
PayloadKey(fieldType) ==
    CASE fieldType = JStr("TEXT") -> "text"
      [] fieldType = JStr("NUMBER") -> "number"
      [] fieldType = JStr("DATE") -> "date"
      [] fieldType = JStr("ITERATION") -> "iterationId"

\* C22: in update-project-item with an explicitly supplied fieldType of TEXT,
\* NUMBER, DATE or ITERATION the value payload is determined by the type alone:
\* TEXT, DATE and ITERATION send the string unmodified as text, date and
\* iterationId, NUMBER sends the parsed number and rejects no input; no lookup
\* is made and the update mutation is the only network call of the call.
C22_ExplicitTypePayload ==
    UpdatingItemExplicitly =>
        LET a == request.arguments
            sent == net[1].variables.value
        IN  /\ Len(net) = 1
            /\ net[1].op = "UPDATE_PROJECT_ITEM_FIELD"
            /\ sent.t = "object"
            /\ sent.k = PayloadKey(a.fieldType)
            /\ IF a.fieldType = JStr("NUMBER")
               THEN sent = JObj("number", parseFloat(Chars(a.value.s)))
               ELSE sent.s = a.value.s
            /\ Answered => IsOneTextBlock(result)
            /\ (Answered /\ net[1].status = "returned")
                  => ResultText[1] = "Project item field updated successfully!\n\n"

\* a NUMBER update whose value is no number was sent all the same, and succeeded
C22_Witness ==
    /\ UpdatingItemExplicitly /\ Answered
    /\ request.arguments.fieldType = JStr("NUMBER")
    /\ request.arguments.value = JStr("done")
    /\ Len(net) = 1 /\ net[1].status = "returned"
    /\ net[1].variables.value.s = "NaN"
    /\ net[1].body.value.s = "null"
    /\ ResultText[1] = "Project item field updated successfully!\n\n"

----------------------------------------------------------------------------
(* C23 *)

\* the handler of a tool call is suspended at an await of a network call
Awaiting == pc \notin {"idle", "done"}

InFlightCalls == { i \in 1..Len(net) : net[i].status = "pending" }

\* C23: within a single tool call the API calls are strictly sequential: at
\* every moment at most one GraphQL or REST call of the tool call is in flight,
\* and a later call is issued only after the previous one has returned or
\* thrown.
C23_SequentialCalls ==
    /\ Cardinality(InFlightCalls) <= 1
    /\ \A i \in 1..Len(net) :
          i < Len(net) => net[i].status \in {"returned", "threw"}
    /\ Awaiting => InFlightCalls = {Len(net)}
    /\ Answered => InFlightCalls = {}

\* a tool call at its third network call, the two before it settled
C23_Witness ==
    /\ Awaiting
    /\ Len(net) = 3
    /\ net[1].status = "threw" /\ net[2].status = "returned"
    /\ net[3].status = "pending"

----------------------------------------------------------------------------
(* C24 *)

\* the operations that change something at the remote
MutationOps ==
    {"CREATE_PROJECT", "UPDATE_PROJECT", "ADD_ITEM_TO_PROJECT",
     "UPDATE_PROJECT_ITEM_FIELD", "CREATE_PROJECT_FIELD", "REST_CREATE_ISSUE"}

NoMutationSent == \A i \in 1..Len(net) : net[i].op \notin MutationOps

\* update-item-status: the fetch threw, returned no project, a project without
\* a status-like field, or one whose status field has no option named as asked
StatusLookupFailed ==
    /\ UpdatingStatus /\ Len(net) >= 1
    /\ \/ net[1].status = "threw"
       \/ /\ net[1].status = "returned"
          /\ \/ project = Undefined
             \/ StatusLikePositions = {}
             \/ OptionsNamed(project.fields[FirstStatusLike],
                             Parsed(UpdateItemStatusSchema).status.s) = {}

\* the position of the re-fetch among the calls of update-project-item
RefetchPosition == IF "fieldType" \in DOMAIN request.arguments THEN 1 ELSE 2

\* update-project-item on a SINGLE_SELECT field: the re-fetch threw, or it
\* returned no field with the given id that has an option named as asked
OptionLookupFailed ==
    /\ EffectivelySingleSelect /\ Len(net) >= RefetchPosition
    /\ \/ net[RefetchPosition].status = "threw"
       \/ /\ net[RefetchPosition].status = "returned"
          /\ \A f \in FieldsWithGivenId :
                 OptionsNamed(f, Parsed(UpdateProjectItemSchema).value.s) = {}

\* create-project: the lookups are over and resolved no owner id
OwnerLookupFailed ==
    /\ CreatingProject /\ Len(net) >= 1
    /\ \/ net[1].status = "returned" /\ Falsy(locals.ownerId)
       \/ /\ Len(net) >= 2 /\ net[2].op = "GET_ORG_ID"
          /\ \/ net[2].status = "threw"
             \/ net[2].status = "returned" /\ Falsy(locals.ownerId)

\* C24: a mutation is issued only after every lookup it depends on has
\* succeeded: when the lookup of update-item-status (project, status field,
\* option), of update-project-item on a SINGLE_SELECT field (re-fetch, option)
\* or of create-project (owner id) fails, the call returns an error text and
\* sends no mutation to the remote.
C24_NoMutationAfterFailedLookup ==
    /\ StatusLookupFailed =>
          Answered /\ IsErrorText("Error updating status: ") /\ NoMutationSent
    /\ OptionLookupFailed =>
          Answered /\ IsErrorText("Error updating project item: ") /\ NoMutationSent
    /\ OwnerLookupFailed =>
          Answered /\ IsErrorText("Error creating project: ") /\ NoMutationSent

\* an update-item-status call on a project without a status-like field has
\* failed after its one fetch
C24_Witness ==
    /\ StatusLookupFailed /\ Answered
    /\ net[1].status = "returned" /\ project # Undefined
    /\ Len(project.fields) > 0 /\ StatusLikePositions = {}
    /\ Len(net) = 1
    /\ IsErrorText("Error updating status: ")

----------------------------------------------------------------------------
(* C25 *)

\* the positions of the add-item-to-project mutations among the calls
AttachCalls == { i \in 1..Len(net) : net[i].op = "ADD_ITEM_TO_PROJECT" }

\* C25: in create-issue the add-item-to-project mutation is issued at most
\* once per call, only after the REST issue creation has returned with a node
\* id, and only when a non-empty projectId was supplied; if the REST creation
\* fails, no GraphQL call is made and the response is the issue-creation error
\* text.
C25_AttachAfterCreation ==
    CreatingIssue =>
        /\ Cardinality(AttachCalls) <= 1
        /\ \A i \in AttachCalls :
              /\ i = 2
              /\ net[1].op = "REST_CREATE_ISSUE" /\ net[1].status = "returned"
              /\ net[i].variables.contentId.t = "string"
              /\ net[i].variables.contentId.s # ""
              /\ "projectId" \in DOMAIN request.arguments
              /\ request.arguments.projectId.t = "string"
              /\ request.arguments.projectId.s # ""
              /\ net[i].variables.projectId = request.arguments.projectId
        /\ (Len(net) >= 1 /\ net[1].status = "threw") =>
              /\ Len(net) = 1 /\ net[1].op = "REST_CREATE_ISSUE"
              /\ Answered /\ IsErrorText("Error creating issue: ")

\* the issue was created and then attached to the project, in two calls
C25_Witness ==
    /\ CreatingIssue /\ Answered
    /\ request.arguments # Undefined
    /\ Get(request.arguments, "projectId") = JStr("P1")
    /\ Len(net) = 2 /\ AttachCalls = {2}
    /\ net[1].status = "returned" /\ net[2].status = "returned"
    /\ net[2].variables.contentId = JStr("I_9")

====
